---- MODULE Spec2Model ----
(***************************************************************************)
(* Short Squeeze Monitor: the acquisition cycle of BinanceDataCollector    *)
(* (src/data_collector.py) driven by ShortSqueezeMonitor.run_forever and   *)
(* run_once (src/main.py).                                                 *)
(*                                                                         *)
(* Every outbound request goes through fetch_with_retry.  A call of it is  *)
(* a task: it waits for the semaphore, issues the request, receives a      *)
(* response (or a transport exception), handles it, possibly sleeps while  *)
(* still holding its permit, and retries or returns.  The sequential steps *)
(* of a cycle run one task; asyncio.gather in get_all_open_interests and   *)
(* in fetch_advanced_metrics runs several.                                 *)
(***************************************************************************)
EXTENDS Integers, Sequences, FiniteSets, TLC

(***************************************************************************)
(* Bounds of the model.                                                    *)
(***************************************************************************)
\* symbols that survive the volume filter in a cycle (width of the fan-out)
NumSymbols == 3
\* cycles the run loop may start
MaxCycles == 2
\* signals a cycle may hand to the dispatch loop
MaxSignals == 1
\* seconds a Retry-After header carries when the server sends one
HintSeconds == 2

(***************************************************************************)
(* Program constants (NetworkConfig, src/config.py).  All are read from    *)
(* the environment; CONCURRENCY_LIMIT is set to 2 here (its default is 5)  *)
(* so that a fan-out of NumSymbols tasks saturates the gate.               *)
(***************************************************************************)
CONCURRENCY_LIMIT == 2
RATE_LIMIT_WAIT == 5
MAX_RETRIES == 3
\* the coroutines fetch_advanced_metrics gathers
MetricFetches == 3

NumTasks == IF NumSymbols > MetricFetches THEN NumSymbols ELSE MetricFetches
Tasks == 1..NumTasks

VARIABLES
    phase,        \* position of run_forever / run_once / collect_all_data
    run_count,    \* ShortSqueezeMonitor.run_count
    should_exit,  \* GracefulExit.should_exit
    is_banned,    \* BinanceDataCollector._is_banned of the cycle's collector
    semaphore,    \* free permits of BinanceDataCollector.semaphore
    pc,           \* per task: position inside fetch_with_retry
    attempt,      \* per task: loop variable of the call in progress
    response,     \* per task: the response or exception being handled
    sleepFor,     \* per task: seconds of the asyncio.sleep in progress
    outcome,      \* per task: what the finished call returned or raised
    collected,    \* how collect_all_data of the current cycle ended
    pending,      \* signals of the cycle still to be dispatched
    shutdown_sent,\* send_shutdown_message calls made
    ban_seen,     \* a 403/418 response has been received by this process
    now,          \* datetime.now(timezone.utc), in half seconds
    store,        \* per symbol: the rows of data/<symbol>.csv, in file order
    result_map,   \* the mapping collect_all_data built in its last step 6 (result)
    applied,      \* the last call of a method of the analyzer or of the
                  \* governor: name, arguments, return value
    alert_history,\* ShortSqueezeMonitor.alert_history
    notifier_enabled, \* TelegramNotifier._enabled
    signal_list,  \* run_once: signals, as analyze_all and then the veto return it
    sorted_signals, \* send_telegram_alerts_with_charts: the list it loops over
    cursor,       \* signals of sorted_signals the for loop has taken
    alerts_sent_this_round, \* the loop's count of alerts marked as sent
    dispatch_log, \* per signal taken: how its dispatch went, in order
    entry_history,\* alert_history as send_telegram_alerts_with_charts found it
    trace,        \* the steps of the cycle in progress, in order
    sleep_left,   \* run_forever: iterations left of the per-second sleep loop
    prior_alert   \* per symbol: the Alert State its last recorded send replaced

fetchVars == <<phase, run_count, should_exit, is_banned, semaphore, pc,
               attempt, response, sleepFor, outcome, collected, pending,
               shutdown_sent, ban_seen>>

dataVars == <<now, store, result_map, applied, alert_history>>

roundVars == <<notifier_enabled, signal_list, sorted_signals, cursor,
               alerts_sent_this_round, dispatch_log, entry_history, trace,
               sleep_left, prior_alert>>

restVars == <<dataVars, roundVars>>

vars == <<fetchVars, dataVars, roundVars>>

taskVars == <<pc, attempt, response, sleepFor, outcome>>
loopVars == <<phase, run_count, should_exit, collected, pending, shutdown_sent>>

(***************************************************************************)
(* Responses.  error # "none" is an exception raised by session.get        *)
(* (aiohttp.ClientError and its subclasses, asyncio.TimeoutError).         *)
(* retry_after is the Retry-After header: <<>> when absent.                *)
(***************************************************************************)
NoResponse == [status |-> 0, error |-> "none", body |-> "none", retry_after |-> <<>>]

Http(s, b, h) == [status |-> s, error |-> "none", body |-> b, retry_after |-> h]

Raised(e) == [status |-> 0, error |-> e, body |-> "none", retry_after |-> <<>>]

Responses ==
    {Http(200, b, <<>>) : b \in {"ok", "malformed"}}
    \cup {Http(429, "none", h) : h \in {<<>>, <<HintSeconds>>}}
    \cup {Http(s, "none", <<>>) : s \in {403, 418, 404, 500}}
    \cup {Raised(e) : e \in {"ClientError", "TimeoutError"}}

\* Classify with the 4xx test dropped: a 404 is retried like a 5xx
ClassifyRetriesClientErrors(r) ==
    IF r.error # "none" THEN "backoff"
    ELSE IF r.status = 200 THEN "return_json"
    ELSE IF r.status = 429 THEN "rate_limited"
    ELSE IF r.status \in {418, 403} THEN "banned"
    ELSE "next_attempt"

(***************************************************************************)
(* fetch_with_retry: classification of a response, in the order of the     *)
(* if / elif chain and the except clauses.                                 *)
(***************************************************************************)
Classify(r) ==
    IF r.error # "none" THEN "backoff"
    ELSE IF r.status = 200 THEN "return_json"
    ELSE IF r.status = 429 THEN "rate_limited"
    ELSE IF r.status \in {418, 403} THEN "banned"
    ELSE IF r.status >= 400 /\ r.status < 500 THEN "return_none"
    ELSE "next_attempt"

\* RetryAfter that never reads the header
RetryAfterDefaultOnly(r) == RATE_LIMIT_WAIT

\* int(response.headers.get("Retry-After", self.rate_limit_wait))
RetryAfter(r) ==
    IF r.retry_after = <<>> THEN RATE_LIMIT_WAIT ELSE r.retry_after[1]

\* Backoff that does not grow
BackoffFixed(a) == 1

\* asyncio.sleep(2 ** attempt)
Backoff(a) == 2 ^ a

\* CanAcquire of a gate that never closes
CanAcquireAlways(v) == TRUE

\* async with self.semaphore: a permit is free
CanAcquire(v) == v > 0

\* the check at the entry of fetch_with_retry
EntryRaises(banned) == banned

\* a loop that makes one attempt more than max_retries
HasBudgetOneMore(a) == a < MAX_RETRIES

\* for attempt in range(self.max_retries): another iteration follows
HasBudget(a) == a + 1 < MAX_RETRIES

(***************************************************************************)
(* Starting fetch_with_retry for the tasks in S, on a collector whose      *)
(* _is_banned is `banned` and whose semaphore has `free` permits.          *)
(* Coroutines handed to asyncio.gather all run their first step before any *)
(* response is handled: each passes the entry check on the same            *)
(* _is_banned, and in the order of the list each takes a permit and sends  *)
(* its request while permits last; the rest wait on the semaphore.         *)
(***************************************************************************)
Before(S, t) == Cardinality({u \in S : u < t})

LaunchPc(S, banned, free) ==
    [t \in Tasks |-> IF t \notin S THEN "idle"
                     ELSE IF EntryRaises(banned) THEN "done"
                     ELSE IF CanAcquire(free - Before(S, t)) THEN "inflight"
                     ELSE "waiting"]

LaunchOutcome(S, banned) ==
    [t \in Tasks |-> IF t \in S /\ EntryRaises(banned) THEN "IPBannedError" ELSE "none"]

Launch(S, banned, free) ==
    /\ pc' = LaunchPc(S, banned, free)
    /\ semaphore' = free - Cardinality({t \in S : LaunchPc(S, banned, free)[t] = "inflight"})
    /\ outcome' = LaunchOutcome(S, banned)
    /\ attempt' = [t \in Tasks |-> 0]
    /\ response' = [t \in Tasks |-> NoResponse]
    /\ sleepFor' = [t \in Tasks |-> 0]

AllDone(S) == \A t \in S : pc[t] = "done"

(***************************************************************************)
(* fetch_with_retry, one task.                                             *)
(***************************************************************************)
\* a task that waited on the semaphore, or starts its next attempt, takes a
\* permit and session.get sends the request
Acquire(t) ==
    /\ pc[t] = "waiting"
    /\ CanAcquire(semaphore)
    /\ semaphore' = semaphore - 1
    /\ pc' = [pc EXCEPT ![t] = "inflight"]
    /\ UNCHANGED <<attempt, response, sleepFor, outcome, is_banned, ban_seen>>
    /\ UNCHANGED loopVars

\* the exchange answers, or the transport fails
Receive(t) ==
    /\ pc[t] = "inflight"
    /\ \E r \in Responses : response' = [response EXCEPT ![t] = r]
    /\ pc' = [pc EXCEPT ![t] = "responded"]
    /\ UNCHANGED <<attempt, sleepFor, outcome, is_banned, semaphore, ban_seen>>
    /\ UNCHANGED loopVars

\* the call returns or raises: the permit is released on the way out
Finish(t, result) ==
    /\ semaphore' = semaphore + 1
    /\ pc' = [pc EXCEPT ![t] = "done"]
    /\ outcome' = [outcome EXCEPT ![t] = result]
    /\ attempt' = [attempt EXCEPT ![t] = 0]
    /\ response' = [response EXCEPT ![t] = NoResponse]
    /\ sleepFor' = [sleepFor EXCEPT ![t] = 0]

\* the with-block is left and the for loop goes on, or ends with return None
EndIteration(t) ==
    IF HasBudget(attempt[t])
    THEN /\ semaphore' = semaphore + 1
         /\ pc' = [pc EXCEPT ![t] = "waiting"]
         /\ attempt' = [attempt EXCEPT ![t] = attempt[t] + 1]
         /\ response' = [response EXCEPT ![t] = NoResponse]
         /\ sleepFor' = [sleepFor EXCEPT ![t] = 0]
         /\ UNCHANGED outcome
    ELSE Finish(t, "None")

\* a sleep that hands its permit back while it lasts
SleepReleasing(t, seconds) ==
    /\ pc' = [pc EXCEPT ![t] = "sleeping"]
    /\ sleepFor' = [sleepFor EXCEPT ![t] = seconds]
    /\ semaphore' = semaphore + 1
    /\ UNCHANGED <<attempt, response, outcome>>

\* asyncio.sleep(seconds) inside the with-blocks: the permit stays taken
Sleep(t, seconds) ==
    /\ pc' = [pc EXCEPT ![t] = "sleeping"]
    /\ sleepFor' = [sleepFor EXCEPT ![t] = seconds]
    /\ UNCHANGED <<attempt, response, outcome, semaphore>>

Handle(t) ==
    /\ pc[t] = "responded"
    /\ LET r == response[t]
           c == Classify(r)
       IN  /\ CASE c = "return_json"  -> Finish(t, r.body)
                [] c = "rate_limited" -> Sleep(t, RetryAfter(r))
                [] c = "banned"       -> Finish(t, "IPBannedError")
                [] c = "return_none"  -> Finish(t, "None")
                [] c = "backoff"      -> Sleep(t, Backoff(attempt[t]))
                [] OTHER              -> EndIteration(t)
           /\ is_banned' = (is_banned \/ c = "banned")
           /\ ban_seen' = (ban_seen \/ c = "banned")
    /\ UNCHANGED loopVars

\* the sleep is over
Wake(t) ==
    /\ pc[t] = "sleeping"
    /\ EndIteration(t)
    /\ UNCHANGED <<is_banned, ban_seen>>
    /\ UNCHANGED loopVars

(***************************************************************************)
(* collect_all_data.  A step of it awaits one fetch (task 1) or the gather *)
(* over the filtered symbols; what follows the await, up to the next       *)
(* await, is one action.                                                   *)
(***************************************************************************)
FanOut == 1..NumSymbols
Metrics == 1..MetricFetches

\* CollectCatch without the trailing except Exception
CollectCatchBanOnly(exc) ==
    IF exc = "IPBannedError" THEN "IPBannedError" ELSE "Exception"

\* the except clauses of collect_all_data: what an exception raised inside
\* its try block becomes for the caller
CollectCatch(exc) ==
    IF exc = "IPBannedError" THEN "IPBannedError" ELSE "empty"

\* the except clauses of run_once around the cycle
RunOnceCatch(exc) == exc = "IPBannedError"

\* run_once goes on to the analysis whatever collect_all_data raised
LeaveRunOnceIntoAnalysis(exc) ==
    /\ should_exit' = (should_exit \/ RunOnceCatch(exc))
    /\ phase' = "analyze"
    /\ UNCHANGED <<pending, run_count, shutdown_sent>>
    /\ UNCHANGED <<taskVars, semaphore, is_banned, ban_seen>>

\* run_once is left: by a return, or through its except clauses when exc
\* was raised inside it (only IPBannedError sets should_exit)
LeaveRunOnce(exc) ==
    /\ should_exit' = (should_exit \/ RunOnceCatch(exc))
    /\ phase' = "cycle_end"
    /\ UNCHANGED <<pending, run_count, shutdown_sent>>
    /\ UNCHANGED <<taskVars, semaphore, is_banned, ban_seen>>

\* collect_all_data has ended with `how`: an exception reaches run_once's
\* except clauses, an empty mapping makes run_once return []
EndCollect(how) ==
    /\ collected' = how
    /\ LeaveRunOnce(how)

\* the next request of the cycle is issued
NextStep(next, S) ==
    /\ phase' = next
    /\ Launch(S, is_banned, semaphore)
    /\ UNCHANGED <<collected, should_exit, pending, run_count, shutdown_sent>>
    /\ UNCHANGED <<is_banned, ban_seen>>

\* get_usdt_pairs returns ([] on failure, which ends the collection; a
\* malformed body raises in the comprehension); get_24hr_tickers is called
GetUsdtPairs ==
    /\ phase = "exchange_info"
    /\ AllDone({1})
    /\ CASE outcome[1] = "IPBannedError" -> EndCollect(CollectCatch("IPBannedError"))
         [] outcome[1] = "None"          -> EndCollect("empty")
         [] outcome[1] = "malformed"     -> EndCollect(CollectCatch("Exception"))
         [] OTHER                        -> NextStep("ticker_24hr", {1})

\* get_24hr_tickers returns; filter_by_volume, then get_funding_rates
Get24hrTickers ==
    /\ phase = "ticker_24hr"
    /\ AllDone({1})
    /\ CASE outcome[1] = "IPBannedError" -> EndCollect(CollectCatch("IPBannedError"))
         [] outcome[1] = "None"          -> EndCollect("empty")
         [] outcome[1] = "malformed"     -> EndCollect(CollectCatch("Exception"))
         [] OTHER                        -> NextStep("premium_index", {1})

\* get_funding_rates returns ({} on failure; a malformed body either raises
\* in the parsing loop or yields no rate); get_all_open_interests gathers
GetFundingRates ==
    /\ phase = "premium_index"
    /\ AllDone({1})
    /\ CASE outcome[1] = "IPBannedError" -> EndCollect(CollectCatch("IPBannedError"))
         [] outcome[1] = "malformed"     -> \/ EndCollect(CollectCatch("Exception"))
                                            \/ NextStep("open_interest", FanOut)
         [] OTHER                        -> NextStep("open_interest", FanOut)

\* get_open_interest of one gathered task: the value, None, or the ban
OpenInterestOf(o) ==
    IF o = "IPBannedError" THEN "IPBannedError"
    ELSE IF o = "ok" THEN "value" ELSE "None"

\* asyncio.gather(*tasks, return_exceptions=True) has every result
GatherReady(S) == AllDone(S)

\* the loop over the gathered results, then the join of collect_all_data,
\* and the rest of run_once up to the dispatch loop
GetAllOpenInterests ==
    /\ phase = "open_interest"
    /\ GatherReady(FanOut)
    /\ IF \E t \in FanOut : OpenInterestOf(outcome[t]) = "IPBannedError"
       THEN EndCollect(CollectCatch("IPBannedError"))
       ELSE IF \A t \in FanOut : OpenInterestOf(outcome[t]) = "None"
       THEN EndCollect("empty")
       ELSE /\ collected' = "mapping"
            /\ \E k \in 0..MaxSignals : pending' = k
            /\ phase' = "alerts"
            /\ UNCHANGED <<should_exit, run_count, shutdown_sent>>
            /\ UNCHANGED <<taskVars, semaphore, is_banned, ban_seen>>

(***************************************************************************)
(* send_telegram_alerts_with_charts: the loop over the signals.            *)
(***************************************************************************)
\* the try / except Exception around one signal's dispatch: what an
\* exception of fetch_klines becomes (IPBannedError is an Exception, so the
\* clause catches it like any other and the text-only fallback follows)
DispatchCatch(exc) == "fallback_text"

SignalHandled ==
    /\ pending' = pending - 1
    /\ phase' = "alerts"
    /\ UNCHANGED <<collected, should_exit, run_count, shutdown_sent>>
    /\ UNCHANGED <<taskVars, semaphore, is_banned, ban_seen>>

\* loop head: the next signal's fetch_klines, or the end of the cycle
AlertNext ==
    /\ phase = "alerts"
    /\ IF pending = 0
       THEN UNCHANGED collected /\ LeaveRunOnce("none")
       ELSE NextStep("klines", {1})

\* fetch_klines returns or re-raises; fetch_advanced_metrics gathers
FetchKlines ==
    /\ phase = "klines"
    /\ AllDone({1})
    /\ IF outcome[1] = "IPBannedError"
       THEN IF DispatchCatch("IPBannedError") = "fallback_text"
            THEN SignalHandled
            ELSE UNCHANGED collected /\ LeaveRunOnce("IPBannedError")
       ELSE NextStep("metrics", Metrics)

\* the three _fetch_* coroutines swallow every exception; the alert is sent
FetchAdvancedMetrics ==
    /\ phase = "metrics"
    /\ GatherReady(Metrics)
    /\ SignalHandled

(***************************************************************************)
(* run_forever.                                                            *)
(***************************************************************************)
\* while not should_exit: run_once builds a collector and starts the cycle
RunOnce ==
    /\ phase = "loop"
    /\ ~should_exit
    /\ run_count < MaxCycles
    /\ run_count' = run_count + 1
    /\ is_banned' = FALSE
    /\ collected' = "pending"
    /\ pending' = 0
    /\ phase' = "exchange_info"
    /\ Launch({1}, FALSE, CONCURRENCY_LIMIT)
    /\ UNCHANGED <<should_exit, shutdown_sent, ban_seen>>

\* run_once has returned: the interval sleep (skipped once should_exit)
IntervalSleep ==
    /\ phase = "cycle_end"
    /\ phase' = "loop"
    /\ UNCHANGED <<run_count, should_exit, collected, pending, shutdown_sent>>
    /\ UNCHANGED <<taskVars, semaphore, is_banned, ban_seen>>

\* the loop is left: send_shutdown_message, when the notifier is enabled
Shutdown ==
    /\ phase = "loop"
    /\ should_exit
    /\ phase' = "stopped"
    /\ shutdown_sent' = shutdown_sent + (IF notifier_enabled THEN 1 ELSE 0)
    /\ UNCHANGED <<run_count, should_exit, collected, pending>>
    /\ UNCHANGED <<taskVars, semaphore, is_banned, ban_seen>>

\* a process that has made no request yet
QuietInit ==
    /\ run_count = 0
    /\ should_exit = FALSE
    /\ is_banned = FALSE
    /\ semaphore = CONCURRENCY_LIMIT
    /\ pc = [t \in Tasks |-> "idle"]
    /\ attempt = [t \in Tasks |-> 0]
    /\ response = [t \in Tasks |-> NoResponse]
    /\ sleepFor = [t \in Tasks |-> 0]
    /\ outcome = [t \in Tasks |-> "none"]
    /\ collected = "pending"
    /\ pending = 0
    /\ shutdown_sent = 0
    /\ ban_seen = FALSE

FetchInit ==
    /\ phase = "loop"
    /\ QuietInit

(***************************************************************************)
(* The data the cycle produces and the analysis reads.  Real numbers are   *)
(* kept exact: a funding rate is an integer number of 1/Unit (-0.0012 is   *)
(* -12), a threshold of src/config.py likewise (1.2 is 12000), and a       *)
(* computed quotient is a fraction <<numerator, denominator>>.             *)
(***************************************************************************)
Unit == 10 ^ 4

\* Python's None where a dict or a tuple may stand instead
None == [none |-> TRUE]

\* the symbols that have, or may get, a file under DATA_DIR
Symbols == {"BTCUSDT", "XUSDT"}

\* a dict without keys
EmptyDict == [s \in {} |-> None]

\* applied before any method has been called
NotApplied == [fn |-> "none"]

DataInit ==
    /\ now = 0
    /\ store = [s \in Symbols |-> <<>>]
    /\ result_map = EmptyDict
    /\ applied = NotApplied
    /\ alert_history = EmptyDict

RoundInit ==
    /\ notifier_enabled = TRUE
    /\ signal_list = <<>>
    /\ sorted_signals = <<>>
    /\ cursor = 0
    /\ alerts_sent_this_round = 0
    /\ dispatch_log = <<>>
    /\ entry_history = EmptyDict
    /\ trace = <<>>
    /\ sleep_left = 0
    /\ prior_alert = EmptyDict

Init == FetchInit /\ DataInit /\ RoundInit

Next ==
    \/ (\E t \in Tasks : Acquire(t)) /\ UNCHANGED restVars
    \/ (\E t \in Tasks : Receive(t)) /\ UNCHANGED restVars
    \/ (\E t \in Tasks : Handle(t)) /\ UNCHANGED restVars
    \/ (\E t \in Tasks : Wake(t)) /\ UNCHANGED restVars
    \/ GetUsdtPairs /\ UNCHANGED restVars
    \/ Get24hrTickers /\ UNCHANGED restVars
    \/ GetFundingRates /\ UNCHANGED restVars
    \/ GetAllOpenInterests /\ UNCHANGED restVars
    \/ AlertNext /\ UNCHANGED restVars
    \/ FetchKlines /\ UNCHANGED restVars
    \/ FetchAdvancedMetrics /\ UNCHANGED restVars
    \/ RunOnce /\ UNCHANGED restVars
    \/ IntervalSleep /\ UNCHANGED restVars
    \/ Shutdown /\ UNCHANGED restVars

Spec == Init /\ [][Next]_vars

\* a step of a fetch: a permit is granted, the request is answered or fails,
\* the answer is handled, a sleep ends
FetchStep ==
    /\ \E t \in Tasks : Acquire(t) \/ Receive(t) \/ Handle(t) \/ Wake(t)
    /\ UNCHANGED restVars

\* every request issued gets its response or its error, every sleep ends and
\* the event loop runs the coroutine that can go on
FairSpec == Spec /\ WF_vars(FetchStep)

(***************************************************************************)
(* Ban handling: propagation, terminality, cancellation.                   *)
(***************************************************************************)
\* C1: once any request of a cycle has received 403 or 418 (in a collection
\* step or in a fetch made while dispatching alerts), the run loop starts no
\* further cycle.
C1_NoCycleAfterBan ==
    [][ban_seen => run_count' = run_count]_vars

\* C2: once the collector is BANNED no request goes out any more: no task
\* that was waiting on the gate or between two attempts puts a request in
\* flight.
C2_NoRequestOnceBanned ==
    [][is_banned => \A t \in Tasks : (pc'[t] = "inflight" => pc[t] = "inflight")]_vars

\* C3: the Ban State is terminal for the process: after a 403/418 response
\* no later cycle starts with a collector that is not BANNED.
C3_BanSurvivesCycles ==
    [][(ban_seen /\ run_count' # run_count) => is_banned']_vars

\* C4: when a task of the open-interest fan-out has raised the ban, every
\* other task of the fan-out is cancelled at once: none is left waiting on
\* the gate, in flight, handling a response or sleeping, so the gather has
\* nothing to wait for.
C4_BanCancelsFanOut ==
    (phase = "open_interest" /\ \E t \in FanOut : outcome[t] = "IPBannedError")
        => \A u \in FanOut : pc[u] = "done"

(***************************************************************************)
(* The concurrency gate.                                                   *)
(***************************************************************************)
InFlight == {t \in Tasks : pc[t] \in {"inflight", "responded"}}

\* C5: the requests of one collector that are in flight at the same time
\* (sent, and not yet handled) never number more than CONCURRENCY_LIMIT.
C5_InFlightAtMostLimit ==
    Cardinality(InFlight) <= CONCURRENCY_LIMIT

\* the gate is full and a further task of the gather is kept waiting
C5_GateSaturated ==
    /\ Cardinality({t \in Tasks : pc[t] = "inflight"}) = CONCURRENCY_LIMIT
    /\ \E t \in Tasks : pc[t] = "waiting"

(***************************************************************************)
(* The retry policy of fetch_with_retry.                                   *)
(***************************************************************************)
\* task t leaves position p in this step
Leaves(t, p) == pc[t] = p /\ pc'[t] # p

\* what follows the sleep of attempt number attempt[t]: the next attempt, or
\* with the budget spent a plain None (no exception, no ban, the cycle's
\* control flow untouched)
RetriesOrGivesUp(t) ==
    /\ IF attempt[t] + 1 < MAX_RETRIES
       THEN pc'[t] = "waiting" /\ attempt'[t] = attempt[t] + 1
       ELSE pc'[t] = "done" /\ outcome'[t] = "None"
    /\ is_banned' = is_banned
    /\ should_exit' = should_exit
    /\ phase' = phase

C7_NetworkErrorBacksOffExponentially ==
    [][\A t \in Tasks :
        /\ (Leaves(t, "responded") /\ response[t].error # "none") =>
             /\ pc'[t] = "sleeping"
             /\ sleepFor'[t] = 2 ^ attempt[t]
             /\ attempt'[t] = attempt[t]
             /\ is_banned' = is_banned
             /\ ban_seen' = ban_seen
        /\ (Leaves(t, "sleeping") /\ response[t].error # "none") =>
             RetriesOrGivesUp(t)]_vars

\* the third attempt of a fetch timed out and sleeps 4 s; no ban anywhere
C7_ThirdTimeoutSleepsFour ==
    \E t \in Tasks :
        /\ pc[t] = "sleeping"
        /\ response[t].error = "TimeoutError"
        /\ attempt[t] = 2
        /\ sleepFor[t] = 4
        /\ ~is_banned

\* C8: a 5xx answer with attempts left is followed by a backoff sleep before
\* the retry.
C8_ServerErrorBacksOff ==
    [][\A t \in Tasks :
        (/\ Leaves(t, "responded")
         /\ response[t].error = "none"
         /\ response[t].status >= 500
         /\ attempt[t] + 1 < MAX_RETRIES)
            => (pc'[t] = "sleeping" /\ sleepFor'[t] > 0)]_vars

OtherClientError(r) ==
    /\ r.error = "none"
    /\ r.status >= 400 /\ r.status < 500
    /\ r.status \notin {429, 403, 418}

\* C9: a 4xx other than 429, 403 and 418 is not retried: the fetch ends with
\* None on the attempt that received it, the Ban State stays as it is and no
\* other request of the cycle is touched.
C9_ClientErrorEndsFetch ==
    [][\A t \in Tasks :
        (Leaves(t, "responded") /\ OtherClientError(response[t])) =>
            /\ pc'[t] = "done"
            /\ outcome'[t] = "None"
            /\ is_banned' = is_banned
            /\ ban_seen' = ban_seen
            /\ phase' = phase
            /\ \A u \in Tasks \ {t} :
                  /\ pc'[u] = pc[u]
                  /\ attempt'[u] = attempt[u]
                  /\ response'[u] = response[u]
                  /\ outcome'[u] = outcome[u]]_vars

\* a 404 is being handled while another request of the gather is in flight
C9_ClientErrorAmongOthers ==
    \E t, u \in Tasks :
        /\ t # u
        /\ pc[t] = "responded"
        /\ response[t].status = 404
        /\ pc[u] = "inflight"

(***************************************************************************)
(* The contract of collect_all_data.                                       *)
(***************************************************************************)
\* C10: collect_all_data ends in one of two ways: it raises the ban (and
\* then the collector is BANNED), or it returns a mapping, possibly empty;
\* no other failure leaves it as an exception.
C10_CollectRaisesOnlyBan ==
    /\ collected \in {"pending", "mapping", "empty", "IPBannedError"}
    /\ collected = "IPBannedError" => is_banned

\* a malformed discovery or ticker body was absorbed into an empty mapping
C10_MalformedAbsorbed ==
    /\ phase = "cycle_end"
    /\ collected = "empty"
    /\ outcome[1] = "malformed"
    /\ ~should_exit

(***************************************************************************)
(* The Time-Series Store.  Step 6 of collect_all_data admits the symbols   *)
(* of the cycle whose price and open interest are positive, returns them   *)
(* in its mapping and appends one row per admitted symbol to the symbol's  *)
(* CSV file.  A row is kept by the columns the analyzer reads: timestamp,  *)
(* close (the price), open_interest, funding_rate.                         *)
(***************************************************************************)
\* rows a symbol's file may come to hold
MaxRows == 2
\* half seconds the clock may advance
MaxTicks == 2

\* what the cycle's requests can yield for a symbol
LastPrices == {-1, 0, 1}
OpenInterests == {0, 100}
FundingRates == {-15, 0}

\* timestamp.strftime("%Y-%m-%d %H:%M:%S"): whole seconds, the fraction cut
Strftime(t) == t \div 2

\* admission that lets a zero through
AdmittedNegativeOnly(price, oi) == ~(price < 0 \/ oi < 0)

\* the negation of "if price <= 0 or oi <= 0: continue"
Admitted(price, oi) == ~(price <= 0 \/ oi <= 0)

\* dict.get(key, default)
Get(dict, key, default) == IF key \in DOMAIN dict THEN dict[key] ELSE default

\* what the gather of get_all_open_interests holds for a symbol when no
\* fetch was banned: the pair (symbol, oi), the pair (symbol, None), or an
\* exception that is not the ban
OiResults ==
    {[kind |-> "value", oi |-> oi] : oi \in OpenInterests}
        \cup {[kind |-> "None", oi |-> 0], [kind |-> "Exception", oi |-> 0]}

\* oi_data of get_all_open_interests: the symbols whose result is a value
OiData(results) ==
    [sym \in {s \in DOMAIN results : results[s].kind = "value"} |->
        results[sym].oi]

\* symbol_data of an admitted symbol, by the keys that are read later
SymbolData(ticker, price, oi, fr) ==
    [price |-> price, open_interest |-> oi, funding_rate |-> fr,
     price_change_percent |-> Get(ticker, "price_change_percent", 0)]

\* the funding rate read from the dict without a default for a missing entry:
\* a symbol without an entry is left out
IntegrateDataFundingRequired(filtered_symbols, tickers, open_interests, funding_rates) ==
    LET price(sym) == Get(Get(tickers, sym, EmptyDict), "last_price", 0)
        admitted == {sym \in {filtered_symbols[i] : i \in DOMAIN filtered_symbols} :
                        /\ sym \in DOMAIN open_interests
                        /\ sym \in DOMAIN funding_rates
                        /\ Admitted(price(sym), open_interests[sym])}
    IN  [sym \in admitted |->
            SymbolData(Get(tickers, sym, EmptyDict), price(sym),
                       open_interests[sym], funding_rates[sym])]

\* result of step 6 of collect_all_data: the loop over filtered_symbols that
\* joins the tickers, the open interests and the funding rates by symbol
IntegrateData(filtered_symbols, tickers, open_interests, funding_rates) ==
    LET price(sym) == Get(Get(tickers, sym, EmptyDict), "last_price", 0)
        admitted == {sym \in {filtered_symbols[i] : i \in DOMAIN filtered_symbols} :
                        /\ sym \in DOMAIN open_interests
                        /\ Admitted(price(sym), open_interests[sym])}
    IN  [sym \in admitted |->
            SymbolData(Get(tickers, sym, EmptyDict), price(sym),
                       open_interests[sym], Get(funding_rates, sym, 0))]

\* row_data of save_to_csv
RowData(data, timestamp) ==
    [timestamp |-> Strftime(timestamp),
     close |-> data.price,
     open_interest |-> data.open_interest,
     funding_rate |-> data.funding_rate]

\* save_to_csv: the file is opened in mode "a" and the row written at its
\* end; when opening or writing raises, the exception is caught, False is
\* returned and the file is as it was
SaveToCsv(file, data, timestamp, raises) ==
    IF raises THEN file ELSE Append(file, RowData(data, timestamp))

\* Step 6 of collect_all_data: the mapping is built and, symbol by symbol,
\* saved; a symbol whose save failed stays in the mapping.  One timestamp
\* serves the whole cycle.
IntegrateAndSaveStep(filtered_symbols, tickers, open_interests, funding_rates, unwritable) ==
    LET result == IntegrateData(filtered_symbols, tickers, open_interests,
                                funding_rates)
    IN  /\ result_map' = result
        /\ store' = [sym \in Symbols |->
                        IF sym \in DOMAIN result
                        THEN SaveToCsv(store[sym], result[sym], now,
                                       sym \in unwritable)
                        ELSE store[sym]]

\* filtered_symbols of a cycle: some of the symbols, in the exchange's order
FilteredLists == {<<"BTCUSDT">>, <<"XUSDT">>, <<"BTCUSDT", "XUSDT">>}

\* One cycle's step 6 on what the cycle fetched: a ticker for every filtered
\* symbol, the open interests of the symbols whose fetch returned a value,
\* a funding rate for every filtered symbol, and the files that cannot be
\* written in this cycle.
IntegrateAndSave ==
    /\ \A sym \in Symbols : Len(store[sym]) < MaxRows
    /\ \E filtered_symbols \in FilteredLists :
       \E fetched \in SUBSET {filtered_symbols[i] : i \in DOMAIN filtered_symbols} :
       \E tickers \in [{filtered_symbols[i] : i \in DOMAIN filtered_symbols} ->
                          [last_price : LastPrices, price_change_percent : {0}]] :
       \E open_interests \in [fetched -> OpenInterests] :
       \E funding_rates \in [{filtered_symbols[i] : i \in DOMAIN filtered_symbols} ->
                                FundingRates] :
       \E unwritable \in SUBSET {sym \in fetched :
                                   Admitted(tickers[sym].last_price,
                                            open_interests[sym])} :
           /\ IntegrateAndSaveStep(filtered_symbols, tickers, open_interests,
                                   funding_rates, unwritable)
           /\ UNCHANGED <<now, applied, alert_history>>
           /\ UNCHANGED fetchVars
           /\ UNCHANGED roundVars

\* time passes between two readings of the clock
Tick ==
    /\ now < MaxTicks
    /\ now' = now + 1
    /\ UNCHANGED <<store, result_map, applied, alert_history>>
    /\ UNCHANGED fetchVars
    /\ UNCHANGED roundVars

StoreNext == IntegrateAndSave \/ Tick

StoreSpec == Init /\ [][StoreNext]_vars

\* C11: every row the collector has appended to the Store has price > 0 and
\* open_interest > 0, and so has every entry of the mapping a cycle returns:
\* a symbol whose price or open interest is not positive in a cycle is
\* neither stored nor returned.
C11_StoreHoldsPositiveOnly ==
    /\ \A sym \in Symbols : \A i \in DOMAIN store[sym] :
          store[sym][i].close > 0 /\ store[sym][i].open_interest > 0
    /\ \A sym \in DOMAIN result_map :
          result_map[sym].price > 0 /\ result_map[sym].open_interest > 0

\* a cycle admitted one symbol and left the other out, after earlier cycles
\* had stored rows for both
C11_OneAdmittedOneLeftOut ==
    /\ DOMAIN result_map = {"XUSDT"}
    /\ Len(store["XUSDT"]) = 2
    /\ Len(store["BTCUSDT"]) = 1

\* C30: every symbol of the mapping a cycle returns has had a row of that
\* cycle appended to its file by the time the mapping is returned, also when
\* the append itself failed.  (In StoreSpec a step that leaves the clock
\* alone is a cycle's step 6.)
C30_ReturnedSymbolsHaveTheirRow ==
    [][now' = now =>
        \A sym \in DOMAIN result_map' :
            store'[sym] = Append(store[sym], RowData(result_map'[sym], now))]_vars

(***************************************************************************)
(* Reading the Store: MarketAnalyzer.load_symbol_data and _sanitize_data.  *)
(* A row stands here with one more field, nan: one of its required columns *)
(* is empty.  The collector writes no such row; a file may hold one.       *)
(***************************************************************************)
\* the rows of a sequence whose index passes keep, in their order
Pick(rows, keep) ==
    LET F[i \in 0..Len(rows)] ==
            IF i = 0 THEN <<>>
            ELSE IF i \in keep THEN Append(F[i - 1], rows[i]) ELSE F[i - 1]
    IN  F[Len(rows)]

\* is the column of a row empty
IsNaN(row) == "nan" \in DOMAIN row /\ row.nan

\* df.dropna(subset=required_cols)
DropNa(rows) == Pick(rows, {i \in DOMAIN rows : ~IsNaN(rows[i])})

\* the rows as they are, duplicate timestamps included
DropDuplicatesNone(rows) == rows

\* df.drop_duplicates(subset=["timestamp"], keep="last")
DropDuplicates(rows) ==
    Pick(rows, {i \in DOMAIN rows : \A j \in (i + 1)..Len(rows) :
                                     rows[j].timestamp # rows[i].timestamp})

\* _sanitize_data: rows with an empty column go, then rows with price <= 0,
\* then rows with open_interest <= 0, then all but the last row of each
\* timestamp
SanitizeData(rows) ==
    LET a == DropNa(rows)
        b == Pick(a, {i \in DOMAIN a : a[i].close > 0})
        c == Pick(b, {i \in DOMAIN b : b[i].open_interest > 0})
    IN  DropDuplicates(c)

\* df.sort_values("timestamp").reset_index(drop=True)
SortValues(rows) ==
    LET n == Len(rows)
        rank(i) == 1 + Cardinality({j \in 1..n :
                          \/ rows[j].timestamp < rows[i].timestamp
                          \/ rows[j].timestamp = rows[i].timestamp /\ j < i})
    IN  [k \in 1..n |-> rows[CHOOSE i \in 1..n : rank(i) = k]]

\* the None load_symbol_data returns in place of a frame: the frame without
\* rows, which load_symbol_data never returns as a frame
NoFrame == <<>>

\* load_symbol_data: None when the file is missing or empty, or when nothing
\* is left of it; else the sanitized rows in timestamp order
LoadSymbolData(file) ==
    IF file = <<>> THEN NoFrame
    ELSE LET df == SanitizeData(file)
         IN  IF df = <<>> THEN NoFrame ELSE SortValues(df)

\* C12: a cycle that ingests a Snapshot whose timestamp the symbol's file
\* already holds overwrites: the Store does not grow, and the symbol's Time
\* Series holds one entry of that timestamp, the row just written.
C12_ReingestOverwrites ==
    [][\A sym \in Symbols :
        (/\ store'[sym] # store[sym]
         /\ \E i \in DOMAIN store[sym] :
               store[sym][i].timestamp = Strftime(now))
        => /\ Len(store'[sym]) = Len(store[sym])
           /\ LET series == LoadSymbolData(store'[sym])
                  same == {i \in DOMAIN series :
                              series[i].timestamp = Strftime(now)}
              IN  /\ Cardinality(same) = 1
                  /\ \A i \in same :
                        series[i] = store'[sym][Len(store'[sym])]]_vars

(***************************************************************************)
(* The Metric Engine (src/analyzer.py).  Thresholds of src/config.py, in   *)
(* 1/Unit; the two window lengths are row counts.                          *)
(***************************************************************************)
NORMAL_FUNDING_RATE == -5
NORMAL_OI_RATIO == 12000
STRONG_FUNDING_RATE == -10
STRONG_OI_RATIO == 20000
OI_SHORT_WINDOW == 3
OI_LONG_WINDOW == 13
OI_15M_STRONG == 1200
OI_15M_NORMAL == 500
OI_1H_STRONG == 3000
OI_1H_NORMAL == 1500
BTC_VETO_THRESHOLD == -100

Abs(x) == IF x < 0 THEN -x ELSE x

\* a quotient a / b with b > 0, kept as the pair; a float equal to k / Unit
Frac(a, b) == <<a, b>>
Float(k) == <<k, Unit>>

\* comparisons of a quotient with a threshold given in 1/Unit
Ge(f, k) == f[1] * Unit >= k * f[2]
Gt(f, k) == f[1] * Unit > k * f[2]
Lt(f, k) == f[1] * Unit < k * f[2]
Le(f, k) == f[1] * Unit <= k * f[2]

\* the sum of the last n values of a series
RECURSIVE TailSum(_, _)
TailSum(series, n) ==
    IF n = 0 \/ series = <<>> THEN 0
    ELSE series[Len(series)] + TailSum(SubSeq(series, 1, Len(series) - 1), n - 1)

\* df["open_interest"]
OiSeries(df) == [i \in DOMAIN df |-> df[i].open_interest]

\* calculate_oi_metrics with the long average taken over the long window's
\* row count whatever the history holds
CalculateOiMetricsFixedLong(df) ==
    LET oi_series == OiSeries(df)
        n == Len(df)
    IN  IF n < OI_SHORT_WINDOW
        THEN LET current_oi == IF n > 0 THEN oi_series[n] ELSE 0
             IN  [current_oi |-> current_oi, short_ma |-> Frac(current_oi, 1),
                  long_ma |-> Frac(current_oi, 1), ratio |-> Float(Unit)]
        ELSE LET short_sum == TailSum(oi_series, OI_SHORT_WINDOW)
                 long_sum == TailSum(oi_series, OI_LONG_WINDOW)
             IN  [current_oi |-> oi_series[n],
                  short_ma |-> Frac(short_sum, OI_SHORT_WINDOW),
                  long_ma |-> Frac(long_sum, OI_LONG_WINDOW),
                  ratio |-> IF long_sum > 0
                            THEN Frac(short_sum * OI_LONG_WINDOW,
                                      long_sum * OI_SHORT_WINDOW)
                            ELSE Float(Unit)]

\* calculate_oi_metrics with the long average taken over every row of the
\* history
CalculateOiMetricsAllRows(df) ==
    LET oi_series == OiSeries(df)
        n == Len(df)
    IN  IF n < OI_SHORT_WINDOW
        THEN LET current_oi == IF n > 0 THEN oi_series[n] ELSE 0
             IN  [current_oi |-> current_oi, short_ma |-> Frac(current_oi, 1),
                  long_ma |-> Frac(current_oi, 1), ratio |-> Float(Unit)]
        ELSE LET short_sum == TailSum(oi_series, OI_SHORT_WINDOW)
                 long_sum == TailSum(oi_series, n)
             IN  [current_oi |-> oi_series[n],
                  short_ma |-> Frac(short_sum, OI_SHORT_WINDOW),
                  long_ma |-> Frac(long_sum, n),
                  ratio |-> IF long_sum > 0
                            THEN Frac(short_sum * n,
                                      long_sum * OI_SHORT_WINDOW)
                            ELSE Float(Unit)]

\* calculate_oi_metrics: (current_oi, short_ma, long_ma, ratio).  The long
\* average is over the last OI_LONG_WINDOW rows, or over all rows when there
\* are fewer; ratio = short_ma / long_ma, 1.0 unless long_ma > 0.
CalculateOiMetrics(df) ==
    LET oi_series == OiSeries(df)
        n == Len(df)
    IN  IF n < OI_SHORT_WINDOW
        THEN LET current_oi == IF n > 0 THEN oi_series[n] ELSE 0
             IN  [current_oi |-> current_oi, short_ma |-> Frac(current_oi, 1),
                  long_ma |-> Frac(current_oi, 1), ratio |-> Float(Unit)]
        ELSE LET short_sum == TailSum(oi_series, OI_SHORT_WINDOW)
                 long_n == IF n >= OI_LONG_WINDOW THEN OI_LONG_WINDOW ELSE n
                 long_sum == TailSum(oi_series, long_n)
             IN  [current_oi |-> oi_series[n],
                  short_ma |-> Frac(short_sum, OI_SHORT_WINDOW),
                  long_ma |-> Frac(long_sum, long_n),
                  ratio |-> IF long_sum > 0
                            THEN Frac(short_sum * long_n,
                                      long_sum * OI_SHORT_WINDOW)
                            ELSE Float(Unit)]

\* (current - oi_ago) / oi_ago over the row `back` places from the end, 0.0
\* when the history has fewer rows or that row's value is not positive
OiChange(oi_series, back) ==
    LET n == Len(oi_series)
    IN  IF n >= back /\ oi_series[n + 1 - back] > 0
        THEN Frac(oi_series[n] - oi_series[n + 1 - back],
                  oi_series[n + 1 - back])
        ELSE Float(0)

\* the trigger tag with the 1-hour window held to its strong threshold
TriggerTypeStrongHour(oi_change_15m, oi_change_1h) ==
    LET t15 == Ge(oi_change_15m, OI_15M_STRONG) \/ Ge(oi_change_15m, OI_15M_NORMAL)
        t1h == Ge(oi_change_1h, OI_1H_STRONG)
    IN  IF t15 /\ t1h THEN "both"
        ELSE IF t15 THEN "15m" ELSE IF t1h THEN "1h" ELSE ""

\* the trigger tag of calculate_oi_dual_window
TriggerType(oi_change_15m, oi_change_1h) ==
    LET t15 == Ge(oi_change_15m, OI_15M_STRONG) \/ Ge(oi_change_15m, OI_15M_NORMAL)
        t1h == Ge(oi_change_1h, OI_1H_STRONG) \/ Ge(oi_change_1h, OI_1H_NORMAL)
    IN  IF t15 /\ t1h THEN "both"
        ELSE IF t15 THEN "15m" ELSE IF t1h THEN "1h" ELSE ""

\* calculate_oi_dual_window: (oi_change_15m, oi_change_1h, trigger_type);
\* 15 minutes ago is the 4th row from the end, 1 hour ago the 13th
CalculateOiDualWindow(df) ==
    LET oi_series == OiSeries(df)
        oi_change_15m == OiChange(oi_series, 4)
        oi_change_1h == OiChange(oi_series, 13)
    IN  [oi_change_15m |-> oi_change_15m,
         oi_change_1h |-> oi_change_1h,
         trigger_type |-> TriggerType(oi_change_15m, oi_change_1h)]

\* check_extreme_funding; funding_threshold = abs(NORMAL_FUNDING_RATE)
CheckExtremeFunding(funding_rate) ==
    Abs(funding_rate) >= Abs(NORMAL_FUNDING_RATE)

\* check_oi_surge; oi_surge_ratio = NORMAL_OI_RATIO
CheckOiSurge(ratio) == Ge(ratio, NORMAL_OI_RATIO)

\* calculate_signal_strength with the configured strong thresholds as its
\* cut-offs
CalculateSignalStrengthConfigured(is_extreme_funding, is_oi_surge, funding_rate, oi_ratio) ==
    IF is_extreme_funding /\ is_oi_surge
    THEN IF Abs(funding_rate) > Abs(STRONG_FUNDING_RATE)
            /\ Gt(oi_ratio, STRONG_OI_RATIO)
         THEN "STRONG" ELSE "MODERATE"
    ELSE IF is_extreme_funding \/ is_oi_surge THEN "WEAK"
    ELSE "NONE"

\* calculate_signal_strength with one flag enough for the upper grades
CalculateSignalStrengthEitherFlag(is_extreme_funding, is_oi_surge, funding_rate, oi_ratio) ==
    IF is_extreme_funding \/ is_oi_surge
    THEN IF Abs(funding_rate) > 30 /\ Gt(oi_ratio, 3 * Unit)
         THEN "STRONG" ELSE "MODERATE"
    ELSE "NONE"

\* calculate_signal_strength; its cut-offs 0.003 and 3.0 are literals
CalculateSignalStrength(is_extreme_funding, is_oi_surge, funding_rate, oi_ratio) ==
    IF is_extreme_funding /\ is_oi_surge
    THEN IF Abs(funding_rate) > 30 /\ Gt(oi_ratio, 3 * Unit)
         THEN "STRONG" ELSE "MODERATE"
    ELSE IF is_extreme_funding \/ is_oi_surge THEN "WEAK"
    ELSE "NONE"

\* _calculate_severity without the test of positive funding
CalculateSeverityNegativeOnly(funding_rate, oi_ratio, oi_change_15m, oi_change_1h) ==
    IF funding_rate <= STRONG_FUNDING_RATE THEN "STRONG"
    ELSE IF Ge(oi_change_15m, OI_15M_STRONG) THEN "STRONG"
    ELSE IF Ge(oi_change_1h, OI_1H_STRONG) THEN "STRONG"
    ELSE IF Gt(oi_ratio, STRONG_OI_RATIO) THEN "STRONG"
    ELSE "NORMAL"

\* _calculate_severity; STRONG_FUNDING_THRESHOLD and STRONG_OI_THRESHOLD are
\* STRONG_FUNDING_RATE and STRONG_OI_RATIO
CalculateSeverity(funding_rate, oi_ratio, oi_change_15m, oi_change_1h) ==
    IF funding_rate <= STRONG_FUNDING_RATE THEN "STRONG"
    ELSE IF funding_rate >= Abs(STRONG_FUNDING_RATE) THEN "STRONG"
    ELSE IF Ge(oi_change_15m, OI_15M_STRONG) THEN "STRONG"
    ELSE IF Ge(oi_change_1h, OI_1H_STRONG) THEN "STRONG"
    ELSE IF Gt(oi_ratio, STRONG_OI_RATIO) THEN "STRONG"
    ELSE "NORMAL"

\* determine_trend_and_advice with the first row held to a falling price
DetermineTrendStrictFall(price_change_pct, oi_change_pct, funding_rate) ==
    IF Lt(price_change_pct, 0) /\ Gt(oi_change_pct, 0) /\ funding_rate < -5
    THEN "accumulation"
    ELSE IF Gt(price_change_pct, 0) /\ Gt(oi_change_pct, 0) /\ funding_rate < 0
    THEN "squeeze_ignition"
    ELSE IF Gt(price_change_pct, 0) /\ Lt(oi_change_pct, 0)
    THEN "short_covering"
    ELSE IF Lt(price_change_pct, 0) /\ Lt(oi_change_pct, 0)
    THEN "long_liquidation"
    ELSE IF Gt(price_change_pct, 0) /\ Gt(oi_change_pct, 0) /\ funding_rate > 5
    THEN "long_crowding"
    ELSE "neutral"

\* determine_trend_and_advice: the first row of the table that matches
DetermineTrendAndAdvice(price_change_pct, oi_change_pct, funding_rate) ==
    IF Le(price_change_pct, 0) /\ Gt(oi_change_pct, 0) /\ funding_rate < -5
    THEN "accumulation"
    ELSE IF Gt(price_change_pct, 0) /\ Gt(oi_change_pct, 0) /\ funding_rate < 0
    THEN "squeeze_ignition"
    ELSE IF Gt(price_change_pct, 0) /\ Lt(oi_change_pct, 0)
    THEN "short_covering"
    ELSE IF Lt(price_change_pct, 0) /\ Lt(oi_change_pct, 0)
    THEN "long_liquidation"
    ELSE IF Gt(price_change_pct, 0) /\ Gt(oi_change_pct, 0) /\ funding_rate > 5
    THEN "long_crowding"
    ELSE "neutral"

\* the advice that goes with a trend
AdviceOf(trend) ==
    CASE trend = "accumulation"     -> "watch"
      [] trend = "squeeze_ignition" -> "long"
      [] trend = "short_covering"   -> "take_profit"
      [] trend = "long_liquidation" -> "stay_out"
      [] trend = "long_crowding"    -> "tighten_stops"
      [] OTHER                      -> "wait"

\* analyze_symbol on the symbol's file and the real-time data of the symbol
\* (None, or a dict with price, funding_rate and price_change_percent)
AnalyzeSymbol(symbol, file, current_data) ==
    LET df == LoadSymbolData(file)
    IN  IF df = NoFrame \/ Len(df) < OI_SHORT_WINDOW THEN None
        ELSE
        LET latest == df[Len(df)]
            price == IF current_data # None
                     THEN current_data.price ELSE latest.close
            funding_rate == IF current_data # None
                            THEN current_data.funding_rate
                            ELSE latest.funding_rate
            m == CalculateOiMetrics(df)
            w == CalculateOiDualWindow(df)
            is_extreme_funding == CheckExtremeFunding(funding_rate)
            is_oi_surge ==
                \/ CheckOiSurge(m.ratio)
                \/ Ge(w.oi_change_15m, OI_15M_NORMAL)
                \/ Ge(w.oi_change_1h, OI_1H_NORMAL)
            signal_strength ==
                CalculateSignalStrength(is_extreme_funding, is_oi_surge,
                                        funding_rate, m.ratio)
            prev_price == df[1].close
            price_change_pct ==
                IF current_data # None
                   /\ "price_change_percent" \in DOMAIN current_data
                THEN Frac(current_data.price_change_percent, 100)
                ELSE IF Len(df) >= 2 /\ prev_price > 0
                     THEN Frac(price - prev_price, prev_price)
                     ELSE Float(0)
            oi_change_pct ==
                IF m.long_ma[1] > 0
                THEN Frac(m.short_ma[1] * m.long_ma[2] - m.long_ma[1] * m.short_ma[2],
                          m.long_ma[1] * m.short_ma[2])
                ELSE Float(0)
            trend == DetermineTrendAndAdvice(price_change_pct, oi_change_pct,
                                             funding_rate)
        IN  IF signal_strength = "NONE" THEN None
            ELSE [symbol |-> symbol,
                  price |-> price,
                  funding_rate |-> funding_rate,
                  current_oi |-> m.current_oi,
                  oi_short_ma |-> m.short_ma,
                  oi_long_ma |-> m.long_ma,
                  oi_ratio |-> m.ratio,
                  is_extreme_funding |-> is_extreme_funding,
                  is_oi_surge |-> is_oi_surge,
                  signal_strength |-> signal_strength,
                  severity |-> CalculateSeverity(funding_rate, m.ratio,
                                   w.oi_change_15m, w.oi_change_1h),
                  price_change_pct |-> price_change_pct,
                  oi_change_pct |-> oi_change_pct,
                  trend |-> trend,
                  advice |-> AdviceOf(trend),
                  oi_change_15m |-> w.oi_change_15m,
                  oi_change_1h |-> w.oi_change_1h,
                  oi_trigger |-> w.trigger_type,
                  btc_change_pct |-> 0,
                  btc_veto |-> FALSE]

\* config.py: BTC_VETO_ENABLED
BTC_VETO_ENABLED == TRUE

\* the risk warning the veto writes over trend and advice
VetoTrend == "btc_dump_warning"
VetoAdvice == "pause_trading"

\* apply_btc_veto that also vetoes at the threshold itself
ApplyBtcVetoAtThreshold(signals, btc_change_pct) ==
    IF ~BTC_VETO_ENABLED THEN signals
    ELSE IF ~(btc_change_pct <= BTC_VETO_THRESHOLD)
    THEN [i \in DOMAIN signals |->
             [signals[i] EXCEPT !.btc_change_pct = btc_change_pct]]
    ELSE LET marked == [i \in DOMAIN signals |->
                           [signals[i] EXCEPT !.btc_change_pct = btc_change_pct,
                                              !.btc_veto = TRUE,
                                              !.advice = VetoAdvice,
                                              !.trend = VetoTrend]]
         IN  Pick(marked, {i \in DOMAIN signals : signals[i].severity = "STRONG"})

\* apply_btc_veto(signals, btc_change_pct); btc_change_pct in 1/Unit.  Below
\* the threshold the STRONG signals are kept, in order, marked and rewritten;
\* otherwise every signal is kept and only has the change recorded.
ApplyBtcVeto(signals, btc_change_pct) ==
    IF ~BTC_VETO_ENABLED THEN signals
    ELSE IF ~(btc_change_pct < BTC_VETO_THRESHOLD)
    THEN [i \in DOMAIN signals |->
             [signals[i] EXCEPT !.btc_change_pct = btc_change_pct]]
    ELSE LET marked == [i \in DOMAIN signals |->
                           [signals[i] EXCEPT !.btc_change_pct = btc_change_pct,
                                              !.btc_veto = TRUE,
                                              !.advice = VetoAdvice,
                                              !.trend = VetoTrend]]
         IN  Pick(marked, {i \in DOMAIN signals : signals[i].severity = "STRONG"})

(***************************************************************************)
(* The analyzer at work.  The files it may find: every file of up to       *)
(* MaxHistory rows written in time order, two rows in the same second or   *)
(* in successive ones, each row valid or not; and some longer files that   *)
(* reach the 1-hour window.  The symbol analyzed is XUSDT; BTCUSDT has no  *)
(* file.                                                                   *)
(***************************************************************************)
MaxHistory == 4

Row(ts, close, oi, fr) ==
    [timestamp |-> ts, close |-> close, open_interest |-> oi,
     funding_rate |-> fr]

NanRow(ts) ==
    [timestamp |-> ts, close |-> 1, open_interest |-> 100,
     funding_rate |-> 0, nan |-> TRUE]

RowKinds(ts) ==
    {Row(ts, 1, 100, 0), Row(ts, 1, 150, -15), Row(ts, 0, 100, 0), NanRow(ts)}

NextRows(file) ==
    IF file = <<>> THEN RowKinds(1)
    ELSE RowKinds(file[Len(file)].timestamp)
             \cup RowKinds(file[Len(file)].timestamp + 1)

RECURSIVE FilesOfLen(_)
FilesOfLen(n) ==
    IF n = 0 THEN {<<>>}
    ELSE UNION {{Append(file, row) : row \in NextRows(file)} :
                    file \in FilesOfLen(n - 1)}

\* a file of valid rows, one per sampling instant, with the given open
\* interests; the last row carries the funding rate fr
SeriesFile(ois, fr) ==
    [i \in DOMAIN ois |->
        Row(i, 1, ois[i], IF i = Len(ois) THEN fr ELSE 0)]

\* n rows of open interest v
Flat(n, v) == [i \in 1..n |-> v]

ExampleFiles ==
    {SeriesFile(<<100, 102, 150>>, -15),
     SeriesFile(Flat(10, 17) \o Flat(3, 160), -12),
     SeriesFile(<<1130>> \o Flat(8, 1120) \o <<1100, 1150, 1200, 1243>>, 0),
     SeriesFile(<<1000>> \o Flat(8, 1200) \o <<1240, 1241, 1242, 1243>>, 0),
     SeriesFile(Flat(13, 100), 4),
     SeriesFile(<<100, 0, 150>>, -15),
     SeriesFile(<<100, 0, 100, 150>>, -15)}

\* the files the analyzer may find for a symbol
Files(symbol) ==
    IF symbol = "XUSDT"
    THEN UNION {FilesOfLen(n) : n \in 0..MaxHistory} \cup ExampleFiles
    ELSE {<<>>}

\* the real-time data of the symbol: none, or the cycle's snapshot
CurrentData ==
    {None,
     [price |-> 1, funding_rate |-> 0, price_change_percent |-> -2],
     [price |-> 2, funding_rate |-> -12, price_change_percent |-> 3],
     [price |-> 2, funding_rate |-> -31, price_change_percent |-> 0],
     [price |-> 2, funding_rate |-> -12]}

AnalyzerInit ==
    /\ FetchInit
    /\ RoundInit
    /\ now = 0
    /\ store \in {[sym \in Symbols |-> IF sym = "XUSDT" THEN file ELSE <<>>] :
                     file \in Files("XUSDT")}
    /\ result_map = EmptyDict
    /\ applied = NotApplied
    /\ alert_history = EmptyDict

\* nothing has been called yet
Idle == applied = NotApplied

\* analyze_all's call of analyze_symbol for one symbol
ApplyAnalyzeSymbol ==
    /\ Idle
    /\ \E symbol \in Symbols : \E data \in CurrentData :
        /\ applied' = [fn |-> "analyze_symbol",
                       symbol |-> symbol,
                       current_data |-> data,
                       ret |-> AnalyzeSymbol(symbol, store[symbol], data)]
        /\ UNCHANGED <<now, store, result_map, alert_history>>
        /\ UNCHANGED fetchVars
        /\ UNCHANGED roundVars

\* The methods that take their arguments as values are called with
\* arguments of these sets, in the state where no file exists.
FundingLevels == {-31, -30, -12, -10, -9, -5, -4, 0, 4, 5, 10, 30, 31}
RatioLevels == {Float(10000), Float(12000), Float(20000), Float(20001),
                Float(30000), Float(30001), Float(32000)}
Changes15m == {Float(0), Float(499), Float(500), Float(1199), Float(1200)}
Changes1h == {Float(0), Float(1499), Float(1500), Float(2999), Float(3000)}
OiLevels == {1000, 1100, 1130, 1243, 1500}

\* frames of 13, 4 and 3 valid rows; in the long ones the 13th and the 4th
\* row from the end and the last row vary
WindowFrames ==
    {SeriesFile(<<a>> \o Flat(8, a) \o <<b, b, b, c>>, 0) :
        a \in OiLevels, b \in OiLevels, c \in OiLevels}
    \cup {SeriesFile(<<b, b, b, c>>, 0) : b \in OiLevels, c \in OiLevels}
    \cup {SeriesFile(<<b, b, c>>, 0) : b \in OiLevels, c \in OiLevels}

NoFiles == \A sym \in Symbols : store[sym] = <<>>

Apply(call) ==
    /\ applied' = call
    /\ UNCHANGED <<now, store, result_map, alert_history>>
    /\ UNCHANGED fetchVars
    /\ UNCHANGED roundVars

ApplySignalStrength ==
    /\ Idle /\ NoFiles
    /\ \E is_extreme_funding \in BOOLEAN, is_oi_surge \in BOOLEAN :
       \E funding_rate \in FundingLevels, oi_ratio \in RatioLevels :
           Apply([fn |-> "calculate_signal_strength",
                  is_extreme_funding |-> is_extreme_funding,
                  is_oi_surge |-> is_oi_surge,
                  funding_rate |-> funding_rate,
                  oi_ratio |-> oi_ratio,
                  ret |-> CalculateSignalStrength(is_extreme_funding,
                              is_oi_surge, funding_rate, oi_ratio)])

ApplySeverity ==
    /\ Idle /\ NoFiles
    /\ \E funding_rate \in FundingLevels, oi_ratio \in RatioLevels :
       \E oi_change_15m \in Changes15m, oi_change_1h \in Changes1h :
           Apply([fn |-> "_calculate_severity",
                  funding_rate |-> funding_rate,
                  oi_ratio |-> oi_ratio,
                  oi_change_15m |-> oi_change_15m,
                  oi_change_1h |-> oi_change_1h,
                  ret |-> CalculateSeverity(funding_rate, oi_ratio,
                              oi_change_15m, oi_change_1h)])

ApplyOiDualWindow ==
    /\ Idle /\ NoFiles
    /\ \E df \in WindowFrames :
           Apply([fn |-> "calculate_oi_dual_window",
                  df |-> df,
                  ret |-> CalculateOiDualWindow(df)])

\* signals a batch handed to the veto may hold
MaxBatch == 2

\* strength_order of analyze_all
StrengthOrder(signal_strength) ==
    CASE signal_strength = "WEAK"     -> 1
      [] signal_strength = "MODERATE" -> 2
      [] signal_strength = "STRONG"   -> 3
      [] OTHER                        -> 0

\* the order of two quotients with positive denominators
FracGreater(f, g) == f[1] * g[2] > g[1] * f[2]
FracEqual(f, g) == f[1] * g[2] = g[1] * f[2]

\* the sort by the strength alone
SortByStrengthAlone(signals) ==
    LET n == Len(signals)
        so(i) == StrengthOrder(signals[i].signal_strength)
        rank(i) == 1 + Cardinality({j \in 1..n :
                          so(j) > so(i) \/ (so(j) = so(i) /\ j < i)})
    IN  [k \in 1..n |-> signals[CHOOSE i \in 1..n : rank(i) = k]]

\* signals.sort(key=(strength_order, oi_ratio), reverse=True): descending,
\* equal keys in the order they were found
SortByStrength(signals) ==
    LET n == Len(signals)
        so(i) == StrengthOrder(signals[i].signal_strength)
        before(j, i) ==
            \/ so(j) > so(i)
            \/ so(j) = so(i) /\ FracGreater(signals[j].oi_ratio, signals[i].oi_ratio)
            \/ so(j) = so(i) /\ FracEqual(signals[j].oi_ratio, signals[i].oi_ratio) /\ j < i
        rank(i) == 1 + Cardinality({j \in 1..n : before(j, i)})
    IN  [k \in 1..n |-> signals[CHOOSE i \in 1..n : rank(i) = k]]

\* min_strength_value = strength_order.get(min_strength, 1)
MinStrengthValue(min_strength) ==
    IF min_strength \in {"WEAK", "MODERATE", "STRONG"}
    THEN StrengthOrder(min_strength) ELSE 1

\* the signals among the results of analyze_symbol (None where it gave none)
\* whose strength is at least min_strength, in the order of the results
AtLeast(results, min_strength) ==
    Pick(results, {i \in DOMAIN results :
                      /\ results[i] # None
                      /\ StrengthOrder(results[i].signal_strength)
                            >= MinStrengthValue(min_strength)})

\* files analyze_all may go through
MaxResults == 3

\* the symbols analyze_all goes through, in its order
ResultSymbols == <<"AUSDT", "BUSDT", "CUSDT", "DUSDT">>

\* what analyze_symbol may return for a symbol, by the fields analyze_all
\* reads: None, or a Signal of some strength and ratio (1.0 written in two
\* ways, and 1.5)
ResultsOf(symbol) ==
    {None} \cup
    {[symbol |-> symbol, signal_strength |-> strength, oi_ratio |-> ratio] :
        strength \in {"WEAK", "MODERATE", "STRONG"},
        ratio \in {<<1, 1>>, <<2, 2>>, <<3, 2>>}}

RECURSIVE ResultListsOfLen(_)
ResultListsOfLen(n) ==
    IF n = 0 THEN {<<>>}
    ELSE UNION {{Append(list, r) : r \in ResultsOf(ResultSymbols[n])} :
                    list \in ResultListsOfLen(n - 1)}

ResultLists == UNION {ResultListsOfLen(n) : n \in 0..MaxResults}

\* the rest of analyze_all once analyze_symbol has been called for every
\* file: the filter by min_strength and the sort
ApplyAnalyzeAll ==
    /\ Idle /\ NoFiles
    /\ \E results \in ResultLists :
       \E min_strength \in {"WEAK", "MODERATE", "STRONG", "NONE"} :
           Apply([fn |-> "analyze_all",
                  results |-> results,
                  min_strength |-> min_strength,
                  ret |-> SortByStrength(AtLeast(results, min_strength))])

\* histories of 14, 13, 12, 4, 3 and 2 rows; in the longest the first two
\* rows, the rows of the short window and the last row vary
MetricLevels == {0, 10, 15}
MetricFrames ==
    {SeriesFile(<<a, b>> \o Flat(8, b) \o <<c, c, c, d>>, 0) :
        a \in MetricLevels, b \in MetricLevels, c \in MetricLevels,
        d \in MetricLevels}
    \cup {SeriesFile(<<a>> \o Flat(n, b) \o <<c, d>>, 0) :
        a \in MetricLevels, b \in MetricLevels, c \in MetricLevels,
        d \in MetricLevels, n \in {0, 1, 9, 10}}
    \cup {SeriesFile(<<c, d>>, 0) : c \in MetricLevels, d \in MetricLevels}

ApplyOiMetrics ==
    /\ Idle /\ NoFiles
    /\ \E df \in MetricFrames :
           Apply([fn |-> "calculate_oi_metrics",
                  df |-> df,
                  ret |-> CalculateOiMetrics(df)])

\* price and open-interest changes of either sign and none
ChangeLevels == {Float(-300), Float(-1), Float(0), Float(1), Float(300)}

ApplyTrendAndAdvice ==
    /\ Idle /\ NoFiles
    /\ \E price_change_pct \in ChangeLevels, oi_change_pct \in ChangeLevels :
       \E funding_rate \in FundingLevels :
           LET trend == DetermineTrendAndAdvice(price_change_pct,
                                                oi_change_pct, funding_rate)
           IN  Apply([fn |-> "determine_trend_and_advice",
                      price_change_pct |-> price_change_pct,
                      oi_change_pct |-> oi_change_pct,
                      funding_rate |-> funding_rate,
                      ret |-> <<trend, AdviceOf(trend)>>])

BatchSymbols == {"AUSDT", "BUSDT", "CUSDT"}

\* a Signal, by the fields the veto reads or writes
SignalOf(symbol, severity) ==
    [symbol |-> symbol, severity |-> severity, trend |-> "neutral",
     advice |-> "wait", btc_change_pct |-> 0, btc_veto |-> FALSE]

RECURSIVE BatchesOfLen(_)
BatchesOfLen(n) ==
    IF n = 0 THEN {<<>>}
    ELSE UNION {{Append(batch, SignalOf(symbol, severity)) :
                    symbol \in BatchSymbols \ {batch[i].symbol : i \in DOMAIN batch},
                    severity \in {"NORMAL", "STRONG"}} :
                batch \in BatchesOfLen(n - 1)}

Batches == UNION {BatchesOfLen(n) : n \in 0..MaxBatch}

\* the reference change, in 1/Unit
BtcChanges == {-200, -101, -100, 0, 150}

ApplyVeto ==
    /\ Idle /\ NoFiles
    /\ \E signals \in Batches, btc_change_pct \in BtcChanges :
           Apply([fn |-> "apply_btc_veto",
                  signals |-> signals,
                  btc_change_pct |-> btc_change_pct,
                  ret |-> ApplyBtcVeto(signals, btc_change_pct)])

AnalyzerNext ==
    \/ ApplyAnalyzeSymbol
    \/ ApplySignalStrength
    \/ ApplySeverity
    \/ ApplyOiDualWindow
    \/ ApplyVeto
    \/ ApplyAnalyzeAll
    \/ ApplyOiMetrics
    \/ ApplyTrendAndAdvice

AnalyzerSpec == AnalyzerInit /\ [][AnalyzerNext]_vars

(***************************************************************************)
(* Insufficient history.                                                   *)
(***************************************************************************)
\* the timestamps of the rows of a file that are complete and have a
\* positive price and a positive open interest
AdmittedPoints(file) ==
    {file[i].timestamp :
        i \in {j \in DOMAIN file : /\ ~IsNaN(file[j])
                                   /\ file[j].close > 0
                                   /\ file[j].open_interest > 0}}

Analyzed == applied.fn = "analyze_symbol"

\* C13: when the admitted history of a symbol (invalid rows and duplicate
\* timestamps discarded) has fewer than OI_SHORT_WINDOW points, analyze
\* returns None whatever the latest snapshot is; it raises nothing.
C13_ShortHistoryGivesNone ==
    (/\ Analyzed
     /\ Cardinality(AdmittedPoints(store[applied.symbol])) < OI_SHORT_WINDOW)
    => applied.ret = None

\* four rows were on file, two admitted points among them, and the latest
\* snapshot carried an extreme funding rate
C13_FourRowsTwoPoints ==
    /\ Analyzed
    /\ applied.symbol = "XUSDT"
    /\ Len(store["XUSDT"]) = 4
    /\ Cardinality(AdmittedPoints(store["XUSDT"])) = 2
    /\ applied.current_data # None
    /\ applied.current_data.funding_rate = -31
    /\ applied.ret = None

(***************************************************************************)
(* Signal strength.                                                        *)
(***************************************************************************)
\* the hard-strong condition on a funding rate and a ratio: magnitude above
\* 0.003 and ratio above 3.0
HardStrong(funding_rate, oi_ratio) ==
    /\ (funding_rate > 30 \/ funding_rate < -30)
    /\ oi_ratio[1] > 3 * oi_ratio[2]

\* the strength the four-way rule gives
RuleStrength(is_extreme_funding, is_oi_surge, funding_rate, oi_ratio) ==
    CASE is_extreme_funding /\ is_oi_surge /\ HardStrong(funding_rate, oi_ratio)
            -> "STRONG"
      [] is_extreme_funding /\ is_oi_surge /\ ~HardStrong(funding_rate, oi_ratio)
            -> "MODERATE"
      [] is_extreme_funding # is_oi_surge -> "WEAK"
      [] ~is_extreme_funding /\ ~is_oi_surge -> "NONE"

\* the history analyze_symbol works on was long enough
SufficientHistory ==
    Cardinality(AdmittedPoints(store[applied.symbol])) >= OI_SHORT_WINDOW

\* the two extremity flags analyze_symbol derives for the call on record
FlagsOfCall ==
    LET df == LoadSymbolData(store[applied.symbol])
        fr == IF applied.current_data # None
              THEN applied.current_data.funding_rate
              ELSE df[Len(df)].funding_rate
        w == CalculateOiDualWindow(df)
    IN  [is_extreme_funding |-> (fr >= 5 \/ fr <= -5),
         is_oi_surge |-> \/ Ge(CalculateOiMetrics(df).ratio, NORMAL_OI_RATIO)
                         \/ Ge(w.oi_change_15m, OI_15M_NORMAL)
                         \/ Ge(w.oi_change_1h, OI_1H_NORMAL)]

\* C14: signal_strength is STRONG iff both extremity flags are set and
\* |funding_rate| > 0.003 and oi_ratio > 3.0, MODERATE iff both are set
\* otherwise, WEAK iff exactly one is set, NONE iff neither; and with
\* sufficient history analyze returns no Signal exactly when the strength
\* is NONE.
C14_StrengthFourWay ==
    /\ applied.fn = "calculate_signal_strength" =>
          applied.ret = RuleStrength(applied.is_extreme_funding,
                            applied.is_oi_surge, applied.funding_rate,
                            applied.oi_ratio)
    /\ (Analyzed /\ SufficientHistory) =>
          /\ applied.ret = None <=>
                (~FlagsOfCall.is_extreme_funding /\ ~FlagsOfCall.is_oi_surge)
          /\ applied.ret # None =>
                /\ applied.ret.is_extreme_funding = FlagsOfCall.is_extreme_funding
                /\ applied.ret.is_oi_surge = FlagsOfCall.is_oi_surge
                /\ applied.ret.signal_strength =
                      RuleStrength(applied.ret.is_extreme_funding,
                          applied.ret.is_oi_surge, applied.ret.funding_rate,
                          applied.ret.oi_ratio)

\* analyze returned a STRONG-strength Signal
C14_AnalyzeGradesStrong ==
    /\ Analyzed
    /\ applied.ret # None
    /\ applied.ret.signal_strength = "STRONG"

\* the call of the example: -0.0012, 3.2, both flags set
IsExampleStrengthCall ==
    /\ applied.fn = "calculate_signal_strength"
    /\ applied.is_extreme_funding
    /\ applied.is_oi_surge
    /\ applied.funding_rate = -12
    /\ applied.oi_ratio[1] * 10 = 32 * applied.oi_ratio[2]

\* C15: funding_rate = -0.0012 and oi_ratio = 3.2 with both extremity flags
\* true, the hard-strong cut-offs being 0.003 and 3.0, gives STRONG.
C15_ExampleIsStrong ==
    IsExampleStrengthCall => applied.ret = "STRONG"

\* C15 as amended: that call gives MODERATE, 0.0012 not being above 0.003.
C15_ExampleIsModerate ==
    IsExampleStrengthCall => applied.ret = "MODERATE"

\* the example has been computed
C15_ExampleComputed ==
    IsExampleStrengthCall /\ applied.ret = "MODERATE"

(***************************************************************************)
(* Severity.                                                               *)
(***************************************************************************)
\* one of the four escalation conditions holds: funding at or beyond the
\* strong threshold in either sign, the 15m change at or above its strong
\* threshold, the 1h change likewise, the ratio above the strong ratio
Escalated(funding_rate, oi_ratio, oi_change_15m, oi_change_1h) ==
    \/ funding_rate <= -Abs(STRONG_FUNDING_RATE)
    \/ funding_rate >= Abs(STRONG_FUNDING_RATE)
    \/ oi_change_15m[1] * Unit >= OI_15M_STRONG * oi_change_15m[2]
    \/ oi_change_1h[1] * Unit >= OI_1H_STRONG * oi_change_1h[2]
    \/ oi_ratio[1] * Unit > STRONG_OI_RATIO * oi_ratio[2]

SeverityCalled == applied.fn = "_calculate_severity"

\* C16: severity is STRONG iff at least one escalation condition holds, and
\* NORMAL otherwise; funding_rate = -0.0012 gives STRONG for every oi_ratio
\* and, in a Signal, for every signal_strength.
C16_SeverityAnyOneSuffices ==
    /\ SeverityCalled =>
          /\ applied.ret = IF Escalated(applied.funding_rate, applied.oi_ratio,
                                  applied.oi_change_15m, applied.oi_change_1h)
                           THEN "STRONG" ELSE "NORMAL"
          /\ applied.funding_rate = -12 => applied.ret = "STRONG"
    /\ (Analyzed /\ applied.ret # None) =>
          /\ applied.ret.severity =
                IF Escalated(applied.ret.funding_rate, applied.ret.oi_ratio,
                       applied.ret.oi_change_15m, applied.ret.oi_change_1h)
                THEN "STRONG" ELSE "NORMAL"
          /\ applied.ret.funding_rate = -12 => applied.ret.severity = "STRONG"

\* positive funding at the strong threshold alone escalated
C16_PositiveFundingAlone ==
    /\ SeverityCalled
    /\ applied.funding_rate = 10
    /\ applied.oi_ratio = Float(10000)
    /\ applied.oi_change_15m = Float(0)
    /\ applied.oi_change_1h = Float(0)
    /\ applied.ret = "STRONG"

(***************************************************************************)
(* End to end: three snapshots.                                            *)
(***************************************************************************)
\* the file of the example: open interest 100, 102, 150, funding -0.0015 on
\* the third row; analyzed with no real-time override
IsThreeSnapshotRun ==
    /\ Analyzed
    /\ applied.symbol = "XUSDT"
    /\ applied.current_data = None
    /\ store["XUSDT"] = SeriesFile(<<100, 102, 150>>, -15)

\* C17: three consecutive Snapshots with open_interest 100, 102, 150 and
\* funding_rate -0.0015 on the third, OI_SHORT_WINDOW being 3, yield a
\* Signal with oi_ratio > 1 and severity STRONG.
C17_ThreeSnapshotsRatioAboveOne ==
    IsThreeSnapshotRun =>
        /\ applied.ret # None
        /\ applied.ret.oi_ratio[1] > applied.ret.oi_ratio[2]
        /\ applied.ret.severity = "STRONG"

\* C17 as amended: they yield a Signal with oi_ratio = 1 (the long average
\* is taken over the same three rows as the short one) and severity STRONG.
C17_ThreeSnapshotsRatioOne ==
    IsThreeSnapshotRun =>
        /\ applied.ret # None
        /\ applied.ret.oi_ratio[1] = applied.ret.oi_ratio[2]
        /\ applied.ret.severity = "STRONG"

\* the three snapshots have been analyzed and gave a Signal
C17_ThreeSnapshotsAnalyzed ==
    /\ IsThreeSnapshotRun
    /\ applied.ret # None
    /\ applied.ret.current_oi = 150

(***************************************************************************)
(* The trigger tag.                                                        *)
(***************************************************************************)
WindowCalled == applied.fn = "calculate_oi_dual_window"

\* the tag that names the windows whose change clears the window's
\* (normal) threshold
TagOf(oi_change_15m, oi_change_1h) ==
    LET in15 == oi_change_15m[1] * Unit >= OI_15M_NORMAL * oi_change_15m[2]
        in1h == oi_change_1h[1] * Unit >= OI_1H_NORMAL * oi_change_1h[2]
    IN  CASE in15 /\ in1h   -> "both"
          [] in15 /\ ~in1h  -> "15m"
          [] ~in15 /\ in1h  -> "1h"
          [] ~in15 /\ ~in1h -> ""

\* a quotient equal to p / 100
IsPercent(f, p) == f[1] * 100 = p * f[2]

\* C18: the trigger tag contains "15m" iff the 15-minute change clears its
\* threshold and "1h" iff the 1-hour change clears its threshold ("both",
\* "15m", "1h" or ""); with a 15m change of 0.13 and a 1h change of 0.10 the
\* tag is "15m".
C18_TriggerTagNamesWindows ==
    /\ WindowCalled =>
          /\ applied.ret.trigger_type =
                TagOf(applied.ret.oi_change_15m, applied.ret.oi_change_1h)
          /\ (/\ IsPercent(applied.ret.oi_change_15m, 13)
              /\ IsPercent(applied.ret.oi_change_1h, 10))
             => applied.ret.trigger_type = "15m"
    /\ (Analyzed /\ applied.ret # None) =>
          applied.ret.oi_trigger =
              TagOf(applied.ret.oi_change_15m, applied.ret.oi_change_1h)

\* the changes of the example, 0.13 and 0.10, have been tagged
C18_ExampleTagged ==
    /\ WindowCalled
    /\ IsPercent(applied.ret.oi_change_15m, 13)
    /\ IsPercent(applied.ret.oi_change_1h, 10)
    /\ applied.ret.trigger_type = "15m"

(***************************************************************************)
(* The market veto.                                                        *)
(***************************************************************************)
VetoCalled == applied.fn = "apply_btc_veto"

\* the index in the input of the k-th STRONG-severity signal
KthStrong(signals, k) ==
    CHOOSE i \in DOMAIN signals :
        /\ signals[i].severity = "STRONG"
        /\ Cardinality({j \in 1..i : signals[j].severity = "STRONG"}) = k

\* C20: when the reference change is strictly below the dump threshold the
\* output is the STRONG-severity input Signals, in input order, each with
\* btc_veto = True and trend and advice overwritten by the risk warning, and
\* every NORMAL-severity Signal is dropped; otherwise every input Signal
\* passes through, unmodified but for the reference change recorded on it.
C20_VetoKeepsStrongOnly ==
    VetoCalled =>
        LET signals == applied.signals
            out == applied.ret
            strong == {i \in DOMAIN signals : signals[i].severity = "STRONG"}
        IN  IF applied.btc_change_pct < BTC_VETO_THRESHOLD
            THEN /\ Len(out) = Cardinality(strong)
                 /\ \A k \in DOMAIN out :
                       /\ out[k].symbol = signals[KthStrong(signals, k)].symbol
                       /\ out[k].severity = "STRONG"
                       /\ out[k].btc_veto = TRUE
                       /\ out[k].trend = VetoTrend
                       /\ out[k].advice = VetoAdvice
            ELSE /\ Len(out) = Len(signals)
                 /\ \A k \in DOMAIN out :
                       /\ out[k].btc_change_pct = applied.btc_change_pct
                       /\ [out[k] EXCEPT !.btc_change_pct = 0] = signals[k]

\* a change of -0.02 met one NORMAL and one STRONG signal and let the
\* STRONG one through
C20_OneOfTwoSurvives ==
    /\ VetoCalled
    /\ applied.btc_change_pct = -200
    /\ Len(applied.signals) = 2
    /\ applied.signals[1].severity = "NORMAL"
    /\ applied.signals[2].severity = "STRONG"
    /\ Len(applied.ret) = 1
    /\ applied.ret[1].symbol = applied.signals[2].symbol

(***************************************************************************)
(* The Alert Governor: ShortSqueezeMonitor.should_send_alert and           *)
(* update_alert_history (src/main.py).  The clock is in half seconds, as   *)
(* in the Store.  The loop of send_telegram_alerts_with_charts asks        *)
(* should_send_alert for a signal and, when the answer is to send and the  *)
(* message goes out, records the send at the time the send returns.        *)
(***************************************************************************)
ALERT_COOLDOWN_MINUTES == 60

HalfSecondsPerMinute == 2 * 60

Minutes(m) == m * HalfSecondsPerMinute

\* the readings of the clock considered: the start, 10 minutes, half a
\* second short of the hour, the hour, 70 minutes, two hours
Instants ==
    {0, Minutes(10), Minutes(60) - 1, Minutes(60), Minutes(70), Minutes(120)}

Severities == {"NORMAL", "STRONG"}

\* (current_time - last_time).total_seconds() / 60
TimeSinceLast(current_time, last_time) ==
    Frac(current_time - last_time, HalfSecondsPerMinute)

\* should_send_alert with the cooldown test strict
ShouldSendAlertStrictlyAfter(signal) ==
    IF signal.symbol \notin DOMAIN alert_history
    THEN [send |-> TRUE, reason |-> "new"]
    ELSE LET last_alert == alert_history[signal.symbol]
             time_since_last == TimeSinceLast(now, last_alert.timestamp)
         IN  IF Gt(time_since_last, ALERT_COOLDOWN_MINUTES * Unit)
             THEN [send |-> TRUE, reason |-> "cooldown elapsed"]
             ELSE IF signal.severity = "STRONG" /\ last_alert.severity = "NORMAL"
             THEN [send |-> TRUE, reason |-> "escalation"]
             ELSE [send |-> FALSE, reason |-> "cooling down"]

\* should_send_alert that lets every STRONG signal through
ShouldSendAlertEveryStrong(signal) ==
    IF signal.symbol \notin DOMAIN alert_history
    THEN [send |-> TRUE, reason |-> "new"]
    ELSE LET last_alert == alert_history[signal.symbol]
             time_since_last == TimeSinceLast(now, last_alert.timestamp)
         IN  IF Ge(time_since_last, ALERT_COOLDOWN_MINUTES * Unit)
             THEN [send |-> TRUE, reason |-> "cooldown elapsed"]
             ELSE IF signal.severity = "STRONG"
             THEN [send |-> TRUE, reason |-> "escalation"]
             ELSE [send |-> FALSE, reason |-> "cooling down"]

\* should_send_alert: (should_send, reason); the reason is kept by its kind
ShouldSendAlert(signal) ==
    IF signal.symbol \notin DOMAIN alert_history
    THEN [send |-> TRUE, reason |-> "new"]
    ELSE LET last_alert == alert_history[signal.symbol]
             time_since_last == TimeSinceLast(now, last_alert.timestamp)
         IN  IF Ge(time_since_last, ALERT_COOLDOWN_MINUTES * Unit)
             THEN [send |-> TRUE, reason |-> "cooldown elapsed"]
             ELSE IF signal.severity = "STRONG" /\ last_alert.severity = "NORMAL"
             THEN [send |-> TRUE, reason |-> "escalation"]
             ELSE [send |-> FALSE, reason |-> "cooling down"]

\* the record of the Alert States that sends have replaced, once the send of
\* the signal is recorded
Replaced(signal) ==
    IF signal.symbol \in DOMAIN alert_history
    THEN [s \in DOMAIN prior_alert \cup {signal.symbol} |->
             IF s = signal.symbol THEN alert_history[s] ELSE prior_alert[s]]
    ELSE prior_alert

\* update_alert_history at clock reading current_time
UpdateAlertHistory(signal, current_time) ==
    [s \in DOMAIN alert_history \cup {signal.symbol} |->
        IF s = signal.symbol
        THEN [timestamp |-> current_time, severity |-> signal.severity]
        ELSE alert_history[s]]

\* the loop asks the governor about a signal
ApplyShouldSendAlert ==
    \E symbol \in Symbols : \E severity \in Severities :
        LET signal == SignalOf(symbol, severity)
        IN  Apply([fn |-> "should_send_alert", signal |-> signal,
                   ret |-> ShouldSendAlert(signal)])

\* the alert the governor let through has gone out, at a reading of the
\* clock not before the decision, and the send is recorded
SendAndUpdate ==
    /\ applied.fn = "should_send_alert"
    /\ applied.ret.send
    /\ \E current_time \in Instants :
        /\ current_time >= now
        /\ now' = current_time
        /\ alert_history' = UpdateAlertHistory(applied.signal, current_time)
    /\ prior_alert' = Replaced(applied.signal)
    /\ applied' = [fn |-> "update_alert_history", signal |-> applied.signal]
    /\ UNCHANGED <<store, result_map>>
    /\ UNCHANGED fetchVars
    /\ UNCHANGED <<notifier_enabled, signal_list, sorted_signals, cursor,
                   alerts_sent_this_round, dispatch_log, entry_history, trace,
                   sleep_left>>

\* time passes until a later round
Elapse ==
    /\ \E current_time \in Instants :
        /\ current_time > now
        /\ now' = current_time
    /\ applied' = NotApplied
    /\ UNCHANGED <<store, result_map, alert_history>>
    /\ UNCHANGED fetchVars
    /\ UNCHANGED roundVars

GovernorNext == ApplyShouldSendAlert \/ SendAndUpdate \/ Elapse

GovernorSpec == Init /\ [][GovernorNext]_vars

Decided == applied.fn = "should_send_alert"

\* a send of the symbol is on record and the cooldown has not elapsed since
WithinCooldown(symbol) ==
    /\ symbol \in DOMAIN alert_history
    /\ now - alert_history[symbol].timestamp <
          ALERT_COOLDOWN_MINUTES * HalfSecondsPerMinute

\* C19: the decision on a signal follows these rules in order: no recorded
\* send of the symbol, send ("new"); else the time since the last recorded
\* send is at least the cooldown, send ("cooldown elapsed"); else the last
\* recorded severity is NORMAL and the signal's is STRONG, send
\* ("escalation"); else suppress.  So within the cooldown a signal of
\* unchanged severity and a NORMAL one after a STRONG one are suppressed,
\* and a STRONG one after a NORMAL one is sent.
C19_DecideRulesInOrder ==
    Decided =>
        LET symbol == applied.signal.symbol
            severity == applied.signal.severity
            ret == applied.ret
        IN  /\ symbol \notin DOMAIN alert_history =>
                  ret = [send |-> TRUE, reason |-> "new"]
            /\ (symbol \in DOMAIN alert_history /\ ~WithinCooldown(symbol)) =>
                  ret = [send |-> TRUE, reason |-> "cooldown elapsed"]
            /\ WithinCooldown(symbol) =>
                  LET last_severity == alert_history[symbol].severity
                  IN  /\ (last_severity = "NORMAL" /\ severity = "STRONG") =>
                            ret = [send |-> TRUE, reason |-> "escalation"]
                      /\ last_severity = severity => ~ret.send
                      /\ (last_severity = "STRONG" /\ severity = "NORMAL") =>
                            ~ret.send

\* a symbol sent as NORMAL sixty minutes ago to the half second is decided
\* again at the same severity, and goes out for the cooldown elapsed
C19_SentAtExactCooldown ==
    /\ Decided
    /\ applied.signal.symbol \in DOMAIN alert_history
    /\ alert_history[applied.signal.symbol].severity = "NORMAL"
    /\ applied.signal.severity = "NORMAL"
    /\ now - alert_history[applied.signal.symbol].timestamp = Minutes(60)
    /\ applied.ret = [send |-> TRUE, reason |-> "cooldown elapsed"]

(***************************************************************************)
(* The dispatch loop of send_telegram_alerts_with_charts (src/main.py).    *)
(* A signal is kept by the fields the loop reads.  What the awaits of one  *)
(* iteration yield is the environment's: fetch_klines returns or raises    *)
(* (IPBannedError is re-raised by it), send_signal_with_chart returns True *)
(* or False or raises, and so does the text-only send of the fallback.     *)
(***************************************************************************)
MAX_ALERTS_PER_ROUND == 1

STRONG_ONLY == FALSE

\* the signals a round may be handed: one per symbol, in the order found
MaxQueue == 2

\* the strengths of the signals handed over (MODERATE ranks between them)
Strengths == {"STRONG", "WEAK"}

QueueSymbols == <<"AUSDT", "BUSDT", "CUSDT">>

QueueSignal(symbol, severity, signal_strength) ==
    [symbol |-> symbol, severity |-> severity,
     signal_strength |-> signal_strength]

RECURSIVE QueuesOfLen(_)
QueuesOfLen(n) ==
    IF n = 0 THEN {<<>>}
    ELSE {Append(q, QueueSignal(QueueSymbols[n], severity, signal_strength)) :
             q \in QueuesOfLen(n - 1), severity \in Severities,
             signal_strength \in Strengths}

Queues == UNION {QueuesOfLen(n) : n \in 0..MaxQueue}

\* a record of an earlier send, or none
EarlierSends ==
    {None} \cup {[timestamp |-> 0, severity |-> severity] :
                    severity \in Severities}

\* the alert histories a round may find: per symbol of the queue, nothing or
\* a send at the start of the clock
Histories(queue) ==
    LET symbols == {queue[i].symbol : i \in DOMAIN queue}
    IN  {[sym \in {x \in symbols : f[x] # None} |-> f[sym]] :
            f \in [symbols -> EarlierSends]}

\* the sort key of the loop: (1 if severity is STRONG else 0, strength rank)
SeverityRank(signal) == IF signal.severity = "STRONG" THEN 1 ELSE 0

StrengthRank(signal) ==
    CASE signal.signal_strength = "STRONG"   -> 3
      [] signal.signal_strength = "MODERATE" -> 2
      [] signal.signal_strength = "WEAK"     -> 1
      [] OTHER                               -> 0

\* tuple comparison of the keys of two signals
KeyGreater(a, b) ==
    \/ SeverityRank(a) > SeverityRank(b)
    \/ SeverityRank(a) = SeverityRank(b) /\ StrengthRank(a) > StrengthRank(b)

KeyEqual(a, b) ==
    SeverityRank(a) = SeverityRank(b) /\ StrengthRank(a) = StrengthRank(b)

\* the list as it came
SortedSignalsAsFound(signals_to_send) == signals_to_send

\* sorted(signals_to_send, key=..., reverse=True): descending by key, equal
\* keys in their original order
SortedSignals(signals_to_send) ==
    LET n == Len(signals_to_send)
        rank(i) == 1 + Cardinality({j \in 1..n :
                      \/ KeyGreater(signals_to_send[j], signals_to_send[i])
                      \/ /\ KeyEqual(signals_to_send[j], signals_to_send[i])
                         /\ j < i})
    IN  [k \in 1..n |-> signals_to_send[CHOOSE i \in 1..n : rank(i) = k]]

\* [s for s in signals if s.severity == "STRONG"], or the list itself
SignalsToSend(signals) ==
    IF STRONG_ONLY
    THEN Pick(signals, {i \in DOMAIN signals : signals[i].severity = "STRONG"})
    ELSE signals

\* a cap that never closes
CapReachedNever(sent) == FALSE

\* if alerts_sent_this_round >= max_alerts: break
CapReached(sent) == sent >= MAX_ALERTS_PER_ROUND

AwaitOutcomes == {"ok", "false", "raised"}

\* one pass through the body of the loop that marks the signal only when
\* the rich send succeeded
DispatchRichOnly(signal, klines, rich, text) ==
    LET rich_result == IF klines = "raised" THEN "none" ELSE rich
        thrown == klines = "raised" \/ rich_result = "raised"
        text_result == IF thrown THEN text ELSE "none"
    IN  [signal |-> signal, decision |-> "send", klines |-> klines,
         rich |-> rich_result, text |-> text_result,
         marked |-> rich_result = "ok"]

\* one pass through the body of the loop that marks the signal whatever
\* became of the sends
DispatchMarksAlways(signal, klines, rich, text) ==
    LET rich_result == IF klines = "raised" THEN "none" ELSE rich
        thrown == klines = "raised" \/ rich_result = "raised"
        text_result == IF thrown THEN text ELSE "none"
    IN  [signal |-> signal, decision |-> "send", klines |-> klines,
         rich |-> rich_result, text |-> text_result,
         marked |-> TRUE]

\* one pass through the try / except of the loop body for a signal the
\* governor let through: the rich send is reached unless fetch_klines
\* raised; the except clause, entered when something raised, makes the
\* text-only send; the signal is marked when the send that was made
\* returned True
Dispatch(signal, klines, rich, text) ==
    LET rich_result == IF klines = "raised" THEN "none" ELSE rich
        thrown == klines = "raised" \/ rich_result = "raised"
        text_result == IF thrown THEN text ELSE "none"
    IN  [signal |-> signal, decision |-> "send", klines |-> klines,
         rich |-> rich_result, text |-> text_result,
         marked |-> (rich_result = "ok" \/ text_result = "ok")]

\* the entry of the log for a signal the governor suppressed
Skipped(signal) ==
    [signal |-> signal, decision |-> "skip", klines |-> "none",
     rich |-> "none", text |-> "none", marked |-> FALSE]

\* send_telegram_alerts_with_charts is entered: its early returns, the
\* filter, the sort and the counters
EnterAlerts ==
    /\ phase = "alerts_entry"
    /\ IF ~notifier_enabled \/ signal_list = <<>>
          \/ SignalsToSend(signal_list) = <<>>
       THEN /\ phase' = "cycle_end"
            /\ UNCHANGED <<sorted_signals, cursor, alerts_sent_this_round,
                           dispatch_log, entry_history>>
       ELSE /\ phase' = "decide"
            /\ sorted_signals' = SortedSignals(SignalsToSend(signal_list))
            /\ cursor' = 0
            /\ alerts_sent_this_round' = 0
            /\ dispatch_log' = <<>>
            /\ entry_history' = alert_history
    /\ trace' = Append(trace, "alerts")
    /\ UNCHANGED <<notifier_enabled, signal_list, sleep_left, prior_alert>>
    /\ UNCHANGED <<run_count, should_exit, collected, pending, shutdown_sent>>
    /\ UNCHANGED <<taskVars, semaphore, is_banned, ban_seen>>
    /\ UNCHANGED dataVars

\* the head of the loop: the end of the list, the cap, the governor
Decide ==
    /\ phase = "decide"
    /\ IF cursor = Len(sorted_signals) \/ CapReached(alerts_sent_this_round)
       THEN /\ phase' = "cycle_end"
            /\ UNCHANGED <<cursor, dispatch_log>>
       ELSE LET signal == sorted_signals[cursor + 1]
            IN  /\ cursor' = cursor + 1
                /\ IF ShouldSendAlert(signal).send
                   THEN /\ phase' = "send"
                        /\ UNCHANGED dispatch_log
                   ELSE /\ phase' = "decide"
                        /\ dispatch_log' = Append(dispatch_log, Skipped(signal))
    /\ UNCHANGED <<notifier_enabled, signal_list, sorted_signals,
                   alerts_sent_this_round, entry_history, trace, sleep_left,
                   prior_alert>>
    /\ UNCHANGED <<run_count, should_exit, collected, pending, shutdown_sent>>
    /\ UNCHANGED <<taskVars, semaphore, is_banned, ban_seen>>
    /\ UNCHANGED dataVars

\* the body of the loop for the signal taken; update_alert_history reads
\* the clock again, the awaits of the body having taken their time
Send ==
    /\ phase = "send"
    /\ \E klines \in {"ok", "raised"} : \E rich \in AwaitOutcomes :
       \E text \in AwaitOutcomes : \E current_time \in {now, now + 1} :
           LET signal == sorted_signals[cursor]
               entry == Dispatch(signal, klines, rich, text)
           IN  /\ ~entry.marked => current_time = now
               /\ now' = current_time
               /\ dispatch_log' = Append(dispatch_log, entry)
               /\ alerts_sent_this_round' =
                     alerts_sent_this_round + (IF entry.marked THEN 1 ELSE 0)
               /\ alert_history' =
                     IF entry.marked
                     THEN UpdateAlertHistory(signal, current_time)
                     ELSE alert_history
               /\ prior_alert' =
                     IF entry.marked THEN Replaced(signal) ELSE prior_alert
    /\ phase' = "decide"
    /\ UNCHANGED <<notifier_enabled, signal_list, sorted_signals, cursor,
                   entry_history, trace, sleep_left>>
    /\ UNCHANGED <<run_count, should_exit, collected, pending, shutdown_sent>>
    /\ UNCHANGED <<taskVars, semaphore, is_banned, ban_seen>>
    /\ UNCHANGED <<store, result_map, applied>>

\* a round of alerts on its own: any queue, any history of its symbols, ten
\* minutes or an hour after the sends on record
DispatchInit ==
    /\ phase = "alerts_entry"
    /\ QuietInit
    /\ store = [s \in Symbols |-> <<>>]
    /\ result_map = EmptyDict
    /\ applied = NotApplied
    /\ now \in {Minutes(10), Minutes(60)}
    /\ notifier_enabled \in BOOLEAN
    /\ signal_list \in Queues
    /\ alert_history \in Histories(signal_list)
    /\ sorted_signals = <<>>
    /\ cursor = 0
    /\ alerts_sent_this_round = 0
    /\ dispatch_log = <<>>
    /\ entry_history = EmptyDict
    /\ trace = <<>>
    /\ sleep_left = 0
    /\ prior_alert = EmptyDict

DispatchNext == EnterAlerts \/ Decide \/ Send

DispatchSpec == DispatchInit /\ [][DispatchNext]_vars

(***************************************************************************)
(* The cap, the fallback and the order of the dispatch loop.               *)
(***************************************************************************)
\* the entries of the log that were marked as sent
Marked == {i \in DOMAIN dispatch_log : dispatch_log[i].marked}

\* the positions of sorted_signals the loop never took
NotReached == (cursor + 1)..Len(sorted_signals)

\* the loop is over
RoundOver == phase = "cycle_end" /\ sorted_signals # <<>>

\* the Alert State of a symbol in a history: its record, or None
AlertState(history, symbol) ==
    IF symbol \in DOMAIN history THEN history[symbol] ELSE None

\* C21: in every cycle the number of signals marked as sent is at most
\* MAX_ALERTS_PER_ROUND; a signal the loop did not reach because the cap was
\* hit has its Alert State as the cycle found it, so that the governor
\* decides on it in the next cycle as if this cycle had not happened.
C21_CapBoundsSendsAndDefers ==
    /\ Cardinality(Marked) <= MAX_ALERTS_PER_ROUND
    /\ alerts_sent_this_round <= MAX_ALERTS_PER_ROUND
    /\ \A i \in NotReached :
          AlertState(alert_history, sorted_signals[i].symbol) =
              AlertState(entry_history, sorted_signals[i].symbol)

\* the cap was hit after one send; a signal whose symbol has a send on
\* record was left for the next cycle
C21_OneSentOneDeferred ==
    /\ RoundOver
    /\ alerts_sent_this_round = MAX_ALERTS_PER_ROUND
    /\ Len(sorted_signals) = 2
    /\ cursor = 1
    /\ sorted_signals[2].symbol \in DOMAIN alert_history
    /\ dispatch_log[1].marked

\* something raised in the dispatch of the signal of an entry
Thrown(entry) == entry.klines = "raised" \/ entry.rich = "raised"

\* C22: when dispatching a signal throws, a text-only attempt for that
\* signal follows and the loop goes on to the remaining signals (it ends
\* only at the end of the list or at the cap); a signal is marked as sent,
\* and counted against the cap, iff its rich or its text-only attempt
\* succeeded.
C22_ThrowFallsBackAndGoesOn ==
    /\ \A i \in DOMAIN dispatch_log :
          LET entry == dispatch_log[i]
          IN  /\ Thrown(entry) => entry.text # "none"
              /\ entry.marked <=> (entry.rich = "ok" \/ entry.text = "ok")
    /\ alerts_sent_this_round = Cardinality(Marked)
    /\ RoundOver =>
          \/ cursor = Len(sorted_signals)
          \/ alerts_sent_this_round >= MAX_ALERTS_PER_ROUND
    /\ phase \in {"decide", "cycle_end"} => Len(dispatch_log) = cursor

\* the first signal's rich send raised and its text-only send failed; the
\* loop went on to the second, whose klines fetch raised and whose text-only
\* send went out
C22_SecondSentAfterFirstThrew ==
    /\ Len(dispatch_log) = 2
    /\ dispatch_log[1].rich = "raised"
    /\ dispatch_log[1].text = "false"
    /\ ~dispatch_log[1].marked
    /\ dispatch_log[2].klines = "raised"
    /\ dispatch_log[2].text = "ok"
    /\ dispatch_log[2].marked
    /\ alerts_sent_this_round = 1

\* C23: every dispatch failure of a signal, the rich send returning False
\* without raising included, is followed by a text-only attempt for that
\* signal.
C23_EveryFailureFallsBack ==
    \A i \in DOMAIN dispatch_log :
        LET entry == dispatch_log[i]
        IN  (entry.decision = "send" /\ entry.rich # "ok") =>
                entry.text # "none"

\* a signal of NORMAL severity was marked as sent in this round
NormalSent ==
    \E i \in Marked : dispatch_log[i].signal.severity = "NORMAL"

\* C27: the signals are taken in non-increasing (severity rank, strength
\* rank) order, so no STRONG-severity signal is left to the cap while a
\* NORMAL-severity one was sent in the same cycle; a signal the cooldown
\* suppressed consumes no quota.
C27_UrgentFirst ==
    /\ \A i, j \in DOMAIN sorted_signals :
          i < j => ~KeyGreater(sorted_signals[j], sorted_signals[i])
    /\ \A i \in NotReached :
          sorted_signals[i].severity = "STRONG" => ~NormalSent
    /\ \A i \in DOMAIN dispatch_log :
          dispatch_log[i].decision = "skip" => ~dispatch_log[i].marked
    /\ alerts_sent_this_round =
          Cardinality({i \in DOMAIN dispatch_log :
                          dispatch_log[i].decision = "send"
                          /\ (\/ dispatch_log[i].rich = "ok"
                              \/ dispatch_log[i].text = "ok")})

\* the list came NORMAL first; the STRONG signal was taken first, suppressed
\* by the cooldown, and the NORMAL one then went out within the cap
C27_SuppressedStrongNormalSent ==
    /\ RoundOver
    /\ Len(signal_list) = 2
    /\ signal_list[1].severity = "NORMAL"
    /\ signal_list[2].severity = "STRONG"
    /\ sorted_signals[1] = signal_list[2]
    /\ Len(dispatch_log) = 2
    /\ dispatch_log[1].decision = "skip"
    /\ dispatch_log[2].marked
    /\ alerts_sent_this_round = 1

(***************************************************************************)
(* The volume filter: BinanceDataCollector.filter_by_volume.  symbols is   *)
(* the list get_usdt_pairs returned (the exchange names each symbol once), *)
(* tickers the dict of get_24hr_tickers; a quote volume is in USDT.        *)
(***************************************************************************)
MIN_VOLUME_24H == 15000000

Universe == {"BTCUSDT", "XUSDT", "YUSDT"}

\* the lists of distinct symbols of the universe
SymbolLists ==
    {l \in UNION {[1..n -> Universe] : n \in 0..Cardinality(Universe)} :
        \A i, j \in DOMAIN l : i # j => l[i] # l[j]}

QuoteVolumes == {MIN_VOLUME_24H - 1, MIN_VOLUME_24H}

\* the tickers: an entry for some of the symbols
Tickers ==
    UNION {[S -> [quote_volume : QuoteVolumes]] : S \in SUBSET Universe}

\* the comprehension alone
FilterByVolumeOnly(symbols, tickers) ==
    Pick(symbols, {i \in DOMAIN symbols :
                      /\ symbols[i] \in DOMAIN tickers
                      /\ tickers[symbols[i]].quote_volume >= MIN_VOLUME_24H})

\* filter_by_volume(symbols, tickers): the comprehension, then BTCUSDT
\* appended when it is among symbols and not yet in the list
FilterByVolume(symbols, tickers) ==
    LET filtered ==
            Pick(symbols, {i \in DOMAIN symbols :
                    /\ symbols[i] \in DOMAIN tickers
                    /\ tickers[symbols[i]].quote_volume >= MIN_VOLUME_24H})
        in_filtered == \E i \in DOMAIN filtered : filtered[i] = "BTCUSDT"
        in_symbols == \E i \in DOMAIN symbols : symbols[i] = "BTCUSDT"
    IN  IF ~in_filtered /\ in_symbols
        THEN Append(filtered, "BTCUSDT")
        ELSE filtered

ApplyFilterByVolume ==
    /\ Idle
    /\ \E symbols \in SymbolLists : \E tickers \in Tickers :
          Apply([fn |-> "filter_by_volume", symbols |-> symbols,
                 tickers |-> tickers,
                 ret |-> FilterByVolume(symbols, tickers)])

\* the elements of a list
Elements(list) == {list[i] : i \in DOMAIN list}

\* a ticker by the keys step 6 reads
TickerValues == [last_price : LastPrices, price_change_percent : {0}]

\* the tickers, the funding rates: a dict with an entry for some symbols
PartialDicts(keys, values) == UNION {[S -> values] : S \in SUBSET keys}

\* Steps 5 and 6 of collect_all_data as a function of what the cycle got:
\* filtered_symbols, the tickers, the results of the open-interest gather
\* (none of them the ban) and the funding rates
ApplyIntegrateData ==
    /\ Idle
    /\ \E filtered_symbols \in FilteredLists :
       \E tickers \in PartialDicts(Elements(filtered_symbols), TickerValues) :
       \E results \in [Elements(filtered_symbols) -> OiResults] :
       \E funding_rates \in PartialDicts(Elements(filtered_symbols), FundingRates) :
          Apply([fn |-> "collect_all_data",
                 filtered_symbols |-> filtered_symbols,
                 tickers |-> tickers,
                 results |-> results,
                 funding_rates |-> funding_rates,
                 ret |-> IntegrateData(filtered_symbols, tickers,
                                       OiData(results), funding_rates)])

CollectorNext == ApplyFilterByVolume \/ ApplyIntegrateData

CollectorSpec == Init /\ [][CollectorNext]_vars

FilterCalled == applied.fn = "filter_by_volume"

\* C29: the output of the volume filter is the discovered symbols whose 24h
\* quote volume is at least the minimum, plus BTCUSDT whenever it is among
\* the discovered symbols, be its volume below the minimum or its ticker
\* missing; BTCUSDT never appears twice.
C29_FilterKeepsReference ==
    FilterCalled =>
        LET symbols == applied.symbols
            tickers == applied.tickers
            ret == applied.ret
            liquid == {sym \in Elements(symbols) :
                          /\ sym \in DOMAIN tickers
                          /\ tickers[sym].quote_volume >= MIN_VOLUME_24H}
        IN  /\ Elements(ret) = liquid \cup (Elements(symbols) \cap {"BTCUSDT"})
            /\ Cardinality({i \in DOMAIN ret : ret[i] = "BTCUSDT"}) <= 1

\* BTCUSDT had no ticker and was kept, after a liquid symbol; an illiquid
\* one was dropped
C29_ReferenceWithoutTicker ==
    /\ FilterCalled
    /\ applied.symbols = <<"BTCUSDT", "XUSDT", "YUSDT">>
    /\ DOMAIN applied.tickers = {"XUSDT", "YUSDT"}
    /\ applied.tickers["XUSDT"].quote_volume = MIN_VOLUME_24H
    /\ applied.tickers["YUSDT"].quote_volume < MIN_VOLUME_24H
    /\ applied.ret = <<"XUSDT", "BTCUSDT">>

IntegrateCalled == applied.fn = "collect_all_data"

\* C28: the mapping collect_all_data returns holds exactly the filtered
\* symbols whose open-interest fetch returned a value and whose last price
\* and open interest are both > 0, each with the price, the open interest
\* and the funding rate the cycle fetched for it: a fetch that failed takes
\* out its own symbol only, and a symbol without a funding-rate entry is
\* admitted with funding_rate 0.
C28_MappingIsTheJoin ==
    IntegrateCalled =>
        LET tickers == applied.tickers
            results == applied.results
            funding_rates == applied.funding_rates
            ret == applied.ret
            last_price(sym) == IF sym \in DOMAIN tickers
                               THEN tickers[sym].last_price ELSE 0
        IN  /\ DOMAIN ret = {sym \in Elements(applied.filtered_symbols) :
                                /\ results[sym].kind = "value"
                                /\ last_price(sym) > 0
                                /\ results[sym].oi > 0}
            /\ \A sym \in DOMAIN ret :
                  /\ ret[sym].price = last_price(sym)
                  /\ ret[sym].open_interest = results[sym].oi
                  /\ ret[sym].funding_rate =
                        IF sym \in DOMAIN funding_rates
                        THEN funding_rates[sym] ELSE 0

\* the open-interest fetch of BTCUSDT returned None and that of XUSDT a
\* value; XUSDT has no funding-rate entry and is the one symbol returned
C28_OneFetchFailedOtherWithoutFunding ==
    /\ IntegrateCalled
    /\ applied.filtered_symbols = <<"BTCUSDT", "XUSDT">>
    /\ applied.results["BTCUSDT"].kind = "None"
    /\ applied.tickers \in [Symbols -> [last_price : {1}, price_change_percent : {0}]]
    /\ DOMAIN applied.funding_rates = {"BTCUSDT"}
    /\ DOMAIN applied.ret = {"XUSDT"}
    /\ applied.ret["XUSDT"].funding_rate = 0

(***************************************************************************)
(* One cycle from end to end: the loop of run_forever around run_once,     *)
(* with the requests of steps 1 to 5 of collect_all_data taken by how they *)
(* end.  Both symbols start with a file of two valid rows, so that the row *)
(* a cycle appends makes the history long enough to be analyzed.           *)
(***************************************************************************)
\* DATA_CONFIG.CHECK_INTERVAL, in seconds
CHECK_INTERVAL == 1

\* what the requests of a cycle may bring: BTCUSDT fell by 2 % or stood
\* still; the open-interest fetch of XUSDT returned 100 or None, that of
\* BTCUSDT 100; the funding rate of XUSDT is -0.15 % or -0.07 %, that of
\* BTCUSDT -0.15 %
CycleTickers ==
    {[sym \in Symbols |->
        [last_price |-> 1,
         price_change_percent |-> IF sym = "BTCUSDT" THEN change ELSE 0]] :
            change \in {-2, 0}}
OiFetched == [kind |-> "value", oi |-> 100]
OiFailed == [kind |-> "None", oi |-> 0]
CycleOiResults ==
    {[sym \in Symbols |-> IF sym = "BTCUSDT" THEN OiFetched ELSE x] :
        x \in {OiFetched, OiFailed}}

\* the open-interest fetch of BTCUSDT failed, that of XUSDT did not
OiResultsWithoutBtc ==
    {[sym \in Symbols |-> IF sym = "BTCUSDT" THEN OiFailed ELSE OiFetched]}
CycleFundingRates ==
    {[sym \in Symbols |-> IF sym = "BTCUSDT" THEN -15 ELSE fr] : fr \in {-15, -7}}

\* _get_btc_change that takes a missing BTCUSDT for a fall of 2 %
GetBtcChangeFallWithout(current_data) ==
    IF "BTCUSDT" \notin DOMAIN current_data THEN (-2 * Unit) \div 100
    ELSE (Get(current_data["BTCUSDT"], "price_change_percent", 0) * Unit) \div 100

\* _get_btc_change: price_change_percent / 100 of BTCUSDT, 0.0 without it;
\* in 1/Unit
GetBtcChange(current_data) ==
    IF "BTCUSDT" \notin DOMAIN current_data THEN 0
    ELSE (Get(current_data["BTCUSDT"], "price_change_percent", 0) * Unit) \div 100

\* the loop of analyze_all held to the symbols of the mapping
AnalyzeEachOfTheMapping(csv_files, current_data, files) ==
    [i \in DOMAIN csv_files |->
        IF csv_files[i] \in DOMAIN current_data
        THEN AnalyzeSymbol(csv_files[i], files[csv_files[i]],
                           current_data[csv_files[i]])
        ELSE None]

\* the loop of analyze_all over the files of the data directory in the
\* order glob yields them: analyze_symbol for each, with the symbol's entry
\* of current_data or None; files[symbol] holds the rows of
\* data/<symbol>.csv.  (data/signal_history.csv has no price column and
\* gives no signal.)
AnalyzeEach(csv_files, current_data, files) ==
    [i \in DOMAIN csv_files |->
        AnalyzeSymbol(csv_files[i], files[csv_files[i]],
                      Get(current_data, csv_files[i], None))]

\* analyze_all(current_data, min_strength="WEAK")
AnalyzeAll(csv_files, current_data, files) ==
    SortByStrength(AtLeast(AnalyzeEach(csv_files, current_data, files), "WEAK"))

\* the orders in which glob may yield the two files
GlobOrders == {<<"BTCUSDT", "XUSDT">>, <<"XUSDT", "BTCUSDT">>}

\* the statements of run_once after a veto placed before the analysis
StepAfterVetoFirst(step) ==
    CASE step = "collect" -> "veto"
      [] step = "veto"    -> "analyze"
      [] step = "analyze" -> "alerts_entry"

\* the statements of the try block of run_once, in the order of the code:
\* collect_all_data, analyze_all, apply_btc_veto,
\* send_telegram_alerts_with_charts
StepAfter(step) ==
    CASE step = "collect" -> "analyze"
      [] step = "analyze" -> "veto"
      [] step = "veto"    -> "alerts_entry"

\* the variables a cycle's steps before the dispatch leave alone
cycleFrame == <<run_count, shutdown_sent, pending, taskVars, semaphore,
                is_banned, ban_seen, applied, notifier_enabled, sleep_left,
                prior_alert>>

\* while not should_exit: run_once is called and counts the round
BeginCycle ==
    /\ phase = "loop"
    /\ ~should_exit
    /\ run_count < MaxCycles
    /\ run_count' = run_count + 1
    /\ phase' = "collect"
    /\ collected' = "pending"
    /\ UNCHANGED <<should_exit, shutdown_sent, pending, taskVars, semaphore,
                   is_banned, ban_seen>>
    /\ UNCHANGED dataVars
    /\ UNCHANGED roundVars

\* collect_all_data ends without reaching step 6: a request of steps 1 to
\* 5 met the ban, which is raised on to run_once, or steps 1 to 3 gave
\* nothing and {} is returned
CollectFails ==
    /\ phase = "collect"
    /\ \E how \in {CollectCatch("IPBannedError"), "empty"} : EndCollect(how)
    /\ UNCHANGED dataVars
    /\ UNCHANGED roundVars

\* collect_all_data reaches step 6 and returns its mapping; an empty one
\* makes run_once return []
CollectAndSaveFrom(oi_results) ==
    /\ phase = "collect"
    /\ \E tickers \in CycleTickers : \E results \in oi_results :
       \E funding_rates \in CycleFundingRates :
       \E unwritable \in SUBSET (DOMAIN OiData(results) \ {"BTCUSDT"}) :
          /\ IntegrateAndSaveStep(<<"BTCUSDT", "XUSDT">>, tickers,
                                  OiData(results), funding_rates, unwritable)
          /\ IF OiData(results) = EmptyDict
             THEN collected' = "empty" /\ phase' = "cycle_end"
             ELSE collected' = "mapping" /\ phase' = StepAfter("collect")
    /\ trace' = Append(trace, "save")
    /\ UNCHANGED <<should_exit, now, alert_history, signal_list, sorted_signals,
                   cursor, alerts_sent_this_round, dispatch_log, entry_history>>
    /\ UNCHANGED cycleFrame

CollectAndSave == CollectAndSaveFrom(CycleOiResults)

\* the same with the open interest of BTCUSDT missing
CollectWithoutBtc == CollectAndSaveFrom(OiResultsWithoutBtc)

\* analyze_all reads the files and the mapping
AnalyzeStep ==
    /\ phase = "analyze"
    /\ \E csv_files \in GlobOrders :
          signal_list' = AnalyzeAll(csv_files, result_map, store)
    /\ phase' = StepAfter("analyze")
    /\ trace' = Append(trace, "analyze")
    /\ UNCHANGED <<should_exit, collected, now, store, result_map,
                   alert_history, sorted_signals, cursor,
                   alerts_sent_this_round, dispatch_log, entry_history>>
    /\ UNCHANGED cycleFrame

\* apply_btc_veto on what analyze_all returned
VetoStep ==
    /\ phase = "veto"
    /\ signal_list' = ApplyBtcVeto(signal_list, GetBtcChange(result_map))
    /\ phase' = StepAfter("veto")
    /\ trace' = Append(trace, "veto")
    /\ UNCHANGED <<should_exit, collected, now, store, result_map,
                   alert_history, sorted_signals, cursor,
                   alerts_sent_this_round, dispatch_log, entry_history>>
    /\ UNCHANGED cycleFrame

\* the sleep is entered although the loop is to be left
SleepTakenAlways(sleep_time, exit) == sleep_time > 0

\* if sleep_time > 0 and not self.exit_handler.should_exit
SleepTaken(sleep_time, exit) == sleep_time > 0 /\ ~exit

\* run_once has returned and its locals are gone: sleep_time =
\* max(0, interval - elapsed), where the round took less than the interval
\* or all of it
AfterRunOnce ==
    /\ phase = "cycle_end"
    /\ \E sleep_time \in {0, CHECK_INTERVAL} :
          IF SleepTaken(sleep_time, should_exit)
          THEN phase' = "sleeping" /\ sleep_left' = sleep_time
          ELSE phase' = "loop" /\ UNCHANGED sleep_left
    /\ result_map' = EmptyDict
    /\ signal_list' = <<>>
    /\ sorted_signals' = <<>>
    /\ cursor' = 0
    /\ alerts_sent_this_round' = 0
    /\ dispatch_log' = <<>>
    /\ entry_history' = EmptyDict
    /\ trace' = <<>>
    /\ UNCHANGED <<run_count, should_exit, collected, pending, shutdown_sent>>
    /\ UNCHANGED <<taskVars, semaphore, is_banned, ban_seen>>
    /\ UNCHANGED <<now, store, applied, alert_history, notifier_enabled,
                   prior_alert>>

\* one iteration of the sleep loop: break on should_exit, else one second
SleepSecond ==
    /\ phase = "sleeping"
    /\ IF should_exit \/ sleep_left = 0
       THEN phase' = "loop" /\ UNCHANGED <<now, sleep_left>>
       ELSE /\ now' = now + 2
            /\ sleep_left' = sleep_left - 1
            /\ UNCHANGED phase
    /\ UNCHANGED <<run_count, should_exit, collected, pending, shutdown_sent>>
    /\ UNCHANGED <<taskVars, semaphore, is_banned, ban_seen>>
    /\ UNCHANGED <<store, result_map, applied, alert_history>>
    /\ UNCHANGED <<notifier_enabled, signal_list, sorted_signals, cursor,
                   alerts_sent_this_round, dispatch_log, entry_history, trace,
                   prior_alert>>

\* SIGINT or SIGTERM: GracefulExit._exit_handler.  should_exit is read by
\* run_forever only, between two rounds, so a signal that arrives during a
\* round is taken here as arriving at its end.
ExitSignal ==
    /\ phase \in {"loop", "cycle_end", "sleeping"}
    /\ ~should_exit
    /\ should_exit' = TRUE
    /\ UNCHANGED <<phase, run_count, collected, pending, shutdown_sent>>
    /\ UNCHANGED <<taskVars, semaphore, is_banned, ban_seen>>
    /\ UNCHANGED restVars

\* the process starts: the files as earlier runs left them, the notifier
\* configured or not
CycleInit ==
    /\ phase = "loop"
    /\ QuietInit
    /\ now = 4
    /\ store = [sym \in Symbols |-> <<Row(0, 1, 100, 0), Row(1, 1, 100, 0)>>]
    /\ result_map = EmptyDict
    /\ applied = NotApplied
    /\ alert_history = EmptyDict
    /\ notifier_enabled \in BOOLEAN
    /\ signal_list = <<>>
    /\ sorted_signals = <<>>
    /\ cursor = 0
    /\ alerts_sent_this_round = 0
    /\ dispatch_log = <<>>
    /\ entry_history = EmptyDict
    /\ trace = <<>>
    /\ sleep_left = 0
    /\ prior_alert = EmptyDict

\* the steps of the program
CycleProgram ==
    \/ BeginCycle
    \/ CollectFails
    \/ CollectAndSave
    \/ AnalyzeStep
    \/ VetoStep
    \/ EnterAlerts
    \/ Decide
    \/ Send
    \/ AfterRunOnce
    \/ SleepSecond
    \/ Shutdown /\ UNCHANGED restVars

CycleNext == CycleProgram \/ ExitSignal

\* what run_forever does between two rounds and after the last
BetweenRounds == AfterRunOnce \/ SleepSecond \/ (Shutdown /\ UNCHANGED restVars)

\* the event loop goes on running run_forever while it has a step to take
\* rounds in which the reference instrument may be missing from the mapping
VetoNext ==
    \/ BeginCycle
    \/ CollectAndSave
    \/ CollectWithoutBtc
    \/ AnalyzeStep
    \/ VetoStep
    \/ EnterAlerts
    \/ Decide
    \/ Send
    \/ AfterRunOnce
    \/ SleepSecond

VetoSpec == CycleInit /\ [][VetoNext]_vars

CycleSpec == CycleInit /\ [][CycleNext]_vars /\ WF_vars(BetweenRounds)

Banned == collected = "IPBannedError"

\* C24: when collection raises the ban in the run loop, the loop is left
\* without the wait for the next poll: no further round is started, the
\* sleep is not entered and no time is spent; the process then stops, and
\* by then the shutdown message has been attempted once when the notifier
\* is configured (and never more than once).
C24_BanLeavesLoopAndShutsDownOnce ==
    /\ [][Banned => run_count' = run_count /\ now' = now]_vars
    /\ [](Banned => should_exit /\ phase \in {"cycle_end", "loop", "stopped"})
    /\ [](shutdown_sent <= 1)
    /\ [](phase = "stopped" =>
             shutdown_sent = IF notifier_enabled THEN 1 ELSE 0)
    /\ (Banned ~> phase = "stopped")

\* the second round met the ban after the first had slept its interval; the
\* process has stopped and the shutdown message was attempted once
C24_StoppedAfterBanInSecondRound ==
    /\ Banned
    /\ phase = "stopped"
    /\ run_count = 2
    /\ now >= 4 + 2 * CHECK_INTERVAL
    /\ notifier_enabled
    /\ shutdown_sent = 1

\* C25: a round whose collection met the ban does nothing else: from the ban
\* on no row is appended to any file, no analysis, veto or dispatch step
\* runs (none had run in the round before it either), no signal exists and
\* the alert history stays as it was.
C25_BanAbortsTheCycle ==
    [][collected' = "IPBannedError" =>
          /\ trace' = <<>>
          /\ store' = store
          /\ alert_history' = alert_history
          /\ result_map' = EmptyDict
          /\ signal_list' = <<>>
          /\ dispatch_log' = <<>>]_vars

\* the second round met the ban; the first had appended a row for XUSDT and
\* sent an alert
C25_BanAfterAWorkingRound ==
    /\ Banned
    /\ run_count = 2
    /\ Len(store["XUSDT"]) = 3
    /\ alert_history # EmptyDict

\* the steps of a round that touch the Store, the signals or the alerts
CycleOrder == <<"save", "analyze", "veto", "alerts">>

\* C26: the steps of a round come in one order.  Rows are appended by the
\* first step only, before the analysis reads the files; the veto runs on
\* what the analysis of all files returned; the governor and the sends come
\* last: when send_telegram_alerts_with_charts is entered the signals are
\* exactly what the veto returns for the analysis of the files as the round
\* wrote them, and neither the signals nor the files change from then on.
C26_StepsOfACycleInOrder ==
    [][/\ \E n \in 0..Len(CycleOrder) : trace' = SubSeq(CycleOrder, 1, n)
       /\ store' # store => trace = <<>> /\ trace' = <<"save">>
       /\ alert_history' # alert_history => trace = CycleOrder
       /\ (phase' \in {"decide", "send"} \/ dispatch_log' # <<>>) =>
             trace' = CycleOrder
       /\ (trace # CycleOrder /\ trace' = CycleOrder) =>
             \E csv_files \in GlobOrders :
                 signal_list' =
                     ApplyBtcVeto(AnalyzeAll(csv_files, result_map', store'),
                                  GetBtcChange(result_map'))
       /\ (trace = CycleOrder /\ trace' = CycleOrder) =>
             /\ signal_list' = signal_list
             /\ result_map' = result_map
             /\ store' = store]_vars

\* BTCUSDT fell and the veto left one signal of two, marked; its send is
\* under way, the row of the round being in the file
C26_VetoedSignalBeingSent ==
    /\ phase = "send"
    /\ trace = CycleOrder
    /\ Len(signal_list) = 1
    /\ signal_list[1].btc_veto
    /\ DOMAIN result_map = Symbols
    /\ result_map["XUSDT"].funding_rate = -7
    /\ \A sym \in Symbols : Len(store[sym]) = 3

AnalyzeAllCalled == applied.fn = "analyze_all"

\* the sort key of a Signal as a pair of integers: the strength ordinal and
\* the ratio over the denominator 2
SortKey(signal) ==
    <<CASE signal.signal_strength = "WEAK"     -> 1
        [] signal.signal_strength = "MODERATE" -> 2
        [] signal.signal_strength = "STRONG"   -> 3,
      (2 * signal.oi_ratio[1]) \div signal.oi_ratio[2]>>

KeyBelow(k, l) == k[1] < l[1] \/ (k[1] = l[1] /\ k[2] < l[2])

\* C31: analyze_all returns exactly the Signals whose strength ordinal
\* (WEAK < MODERATE < STRONG) is at least that of min_strength, each once, in
\* descending order of (strength ordinal, oi_ratio); two Signals with equal
\* keys stand in the order in which their symbols were analyzed.
C31_FilteredAndStablySorted ==
    AnalyzeAllCalled =>
        LET results == applied.results
            ret == applied.ret
            floor == CASE applied.min_strength = "MODERATE" -> 2
                       [] applied.min_strength = "STRONG"   -> 3
                       [] OTHER                             -> 1
            kept == {i \in DOMAIN results :
                        results[i] # None /\ SortKey(results[i])[1] >= floor}
            place(k) == CHOOSE i \in DOMAIN results : results[i] = ret[k]
        IN  /\ Len(ret) = Cardinality(kept)
            /\ {ret[k] : k \in DOMAIN ret} = {results[i] : i \in kept}
            /\ \A k, l \in DOMAIN ret :
                  k < l =>
                     /\ ~KeyBelow(SortKey(ret[k]), SortKey(ret[l]))
                     /\ SortKey(ret[k]) = SortKey(ret[l]) => place(k) < place(l)

\* a WEAK signal was filtered out; the two that passed have equal keys, the
\* ratio 1.0 written in two ways, and kept their order
C31_EqualKeysKeepOrder ==
    /\ AnalyzeAllCalled
    /\ applied.min_strength = "MODERATE"
    /\ Len(applied.results) = 3
    /\ applied.results[1] # None /\ applied.results[1].signal_strength = "WEAK"
    /\ Len(applied.ret) = 2
    /\ applied.ret[1].symbol = "BUSDT" /\ applied.ret[1].oi_ratio = <<2, 2>>
    /\ applied.ret[2].symbol = "CUSDT" /\ applied.ret[2].oi_ratio = <<1, 1>>

(***************************************************************************)
(* The moving averages of the open interest.                               *)
(***************************************************************************)
OiMetricsCalled == applied.fn = "calculate_oi_metrics"

\* series[first] + ... + series[Len(series)]
RECURSIVE SumFrom(_, _)
SumFrom(series, first) ==
    IF first > Len(series) THEN 0
    ELSE series[first] + SumFrom(series, first + 1)

\* C32: for a history of at least OI_SHORT_WINDOW rows the short average is
\* the mean of the last OI_SHORT_WINDOW open interests, the long average is
\* the mean of the last OI_LONG_WINDOW of them when there are that many rows
\* and of all rows otherwise, the ratio is short / long, 1.0 when the long
\* average is not positive; with exactly OI_SHORT_WINDOW rows the ratio is 1.
C32_AveragesOfTheWindows ==
    (OiMetricsCalled /\ Len(applied.df) >= OI_SHORT_WINDOW) =>
        LET oi == [i \in DOMAIN applied.df |-> applied.df[i].open_interest]
            n == Len(oi)
            long_n == IF n >= OI_LONG_WINDOW THEN OI_LONG_WINDOW ELSE n
            short_sum == SumFrom(oi, n + 1 - OI_SHORT_WINDOW)
            long_sum == SumFrom(oi, n + 1 - long_n)
            ret == applied.ret
        IN  /\ ret.short_ma[1] * OI_SHORT_WINDOW = short_sum * ret.short_ma[2]
            /\ ret.long_ma[1] * long_n = long_sum * ret.long_ma[2]
            /\ IF long_sum > 0
               THEN ret.ratio[1] * long_sum * OI_SHORT_WINDOW
                        = short_sum * long_n * ret.ratio[2]
               ELSE ret.ratio[1] = ret.ratio[2]
            /\ n = OI_SHORT_WINDOW => ret.ratio[1] = ret.ratio[2]

\* a history longer than the long window whose first row differs from the
\* rest, and one of exactly the short window with rows that differ
C32_LongerThanTheLongWindow ==
    /\ OiMetricsCalled
    /\ Len(applied.df) > OI_LONG_WINDOW
    /\ applied.df[1].open_interest # applied.df[2].open_interest
    /\ applied.df[2].open_interest > 0

(***************************************************************************)
(* The trend of a Signal.                                                  *)
(***************************************************************************)
\* the sign of a quotient with a positive denominator
Sign(f) == IF f[1] > 0 THEN 1 ELSE IF f[1] < 0 THEN -1 ELSE 0

\* the table, by the signs of the price and open-interest changes and the
\* funding rate in 1/Unit: the first row that matches
TableRow(price, oi, funding) ==
    CASE price <= 0 /\ oi > 0 /\ funding < -5 -> "accumulation"
      [] ~(price <= 0 /\ oi > 0 /\ funding < -5)
         /\ price > 0 /\ oi > 0 /\ funding < 0 -> "squeeze_ignition"
      [] price > 0 /\ oi < 0 -> "short_covering"
      [] price < 0 /\ oi < 0 -> "long_liquidation"
      [] ~(price > 0 /\ oi > 0 /\ funding < 0)
         /\ price > 0 /\ oi > 0 /\ funding > 5 -> "long_crowding"
      [] OTHER -> "neutral"

\* C33: the trend is the first matching row of the table (accumulation,
\* squeeze ignition, short covering, long liquidation, long crowding, else
\* neutral); the price change of a Signal is the 24h percent change of the
\* real-time data whenever there is one, and otherwise
\* (latest price - oldest loaded price) / oldest loaded price.
C33_TrendIsTheFirstMatchingRow ==
    /\ applied.fn = "determine_trend_and_advice" =>
           applied.ret[1] = TableRow(Sign(applied.price_change_pct),
                                     Sign(applied.oi_change_pct),
                                     applied.funding_rate)
    /\ (applied.fn = "analyze_symbol" /\ applied.ret # None) =>
           LET s == applied.ret
               df == LoadSymbolData(store[applied.symbol])
               supplied == /\ applied.current_data # None
                           /\ "price_change_percent"
                                  \in DOMAIN applied.current_data
           IN  /\ s.trend = TableRow(Sign(s.price_change_pct),
                                     Sign(s.oi_change_pct), s.funding_rate)
               /\ s.price_change_pct[2] > 0 /\ s.oi_change_pct[2] > 0
               /\ IF supplied
                  THEN s.price_change_pct[1] * 100 =
                       applied.current_data.price_change_percent
                           * s.price_change_pct[2]
                  ELSE s.price_change_pct[1] * df[1].close =
                       (s.price - df[1].close) * s.price_change_pct[2]

\* a Signal whose supplied 24h change is 0 while its price is above the oldest
\* loaded price, with rising open interest: accumulation by the first row
C33_SuppliedChangeWins ==
    /\ applied.fn = "analyze_symbol" /\ applied.ret # None
    /\ applied.current_data # None
    /\ "price_change_percent" \in DOMAIN applied.current_data
    /\ applied.current_data.price_change_percent = 0
    /\ applied.ret.price > LoadSymbolData(store[applied.symbol])[1].close
    /\ applied.ret.trend = "accumulation"

(***************************************************************************)
(* The Alert State.                                                        *)
(***************************************************************************)
\* the step has handled a signal: the entry it added to the log
Handled == Len(dispatch_log') = Len(dispatch_log) + 1

LastEntry == dispatch_log'[Len(dispatch_log')]

\* the rich or the degraded attempt of the entry succeeded
Succeeded(entry) ==
    entry.decision = "send" /\ (entry.rich = "ok" \/ entry.text = "ok")

\* C34: the Alert State of a symbol changes only in a step in which a
\* dispatch of that symbol succeeded, by the rich or by the degraded attempt,
\* and is then the instant of the send and the severity sent; a signal that is
\* suppressed, cut off by the cap, filtered out or whose dispatch failed
\* leaves the Alert State of every symbol as it was.
C34_AlertStateFollowsSuccessfulSends ==
    [][IF Handled /\ Succeeded(LastEntry)
       THEN LET signal == LastEntry.signal
            IN  /\ DOMAIN alert_history' =
                      DOMAIN alert_history \cup {signal.symbol}
                /\ alert_history'[signal.symbol] =
                      [timestamp |-> now', severity |-> signal.severity]
                /\ \A s \in DOMAIN alert_history \ {signal.symbol} :
                      alert_history'[s] = alert_history[s]
       ELSE alert_history' = alert_history]_vars

\* a round in which one signal was suppressed, the rich send of another
\* failed while its text-only send went out, and the Alert State holds the
\* second with the severity sent
C34_DegradedSendRecorded ==
    /\ \E i \in DOMAIN dispatch_log : dispatch_log[i].decision = "skip"
    /\ \E i \in DOMAIN dispatch_log :
          /\ dispatch_log[i].decision = "send"
          /\ dispatch_log[i].rich # "ok" /\ dispatch_log[i].text = "ok"
          /\ dispatch_log[i].signal.symbol \in DOMAIN alert_history
          /\ alert_history[dispatch_log[i].signal.symbol].timestamp = now
          /\ alert_history[dispatch_log[i].signal.symbol].severity
                = dispatch_log[i].signal.severity
          /\ dispatch_log[i].signal.symbol \notin DOMAIN entry_history

(***************************************************************************)
(* Successive alerts of a symbol.                                          *)
(***************************************************************************)
\* the step records the send of the signal the governor decided on
SendRecorded ==
    applied.fn = "should_send_alert" /\ applied'.fn = "update_alert_history"

\* the cooldown in units of the clock
Cooldown == ALERT_COOLDOWN_MINUTES * HalfSecondsPerMinute

\* C35: two successive recorded sends of a symbol are less than the cooldown
\* apart only if the earlier was recorded NORMAL and the later is STRONG;
\* hence after a STRONG alert none follows for the symbol before the cooldown
\* has elapsed, and a third send never falls within less than a cooldown of
\* the send before the last, so no window of cooldown length holds three.
C35_OnlyAnEscalationWithinTheCooldown ==
    [][SendRecorded =>
          LET symbol == applied.signal.symbol
              later == alert_history'[symbol]
          IN  /\ symbol \in DOMAIN alert_history =>
                  LET earlier == alert_history[symbol]
                  IN  /\ later.timestamp - earlier.timestamp < Cooldown =>
                             /\ earlier.severity = "NORMAL"
                             /\ later.severity = "STRONG"
                      /\ earlier.severity = "STRONG" =>
                             later.timestamp - earlier.timestamp >= Cooldown
              /\ symbol \in DOMAIN prior_alert =>
                  later.timestamp - prior_alert[symbol].timestamp >= Cooldown
      ]_vars

\* a NORMAL alert, its escalation ten minutes later, and a STRONG signal of
\* the symbol suppressed an hour after the first alert
C35_SuppressedAfterTheEscalation ==
    /\ \E symbol \in DOMAIN prior_alert :
          /\ prior_alert[symbol].severity = "NORMAL"
          /\ alert_history[symbol].severity = "STRONG"
          /\ alert_history[symbol].timestamp - prior_alert[symbol].timestamp
                < Cooldown
          /\ now - prior_alert[symbol].timestamp >= Cooldown
          /\ applied.fn = "should_send_alert"
          /\ applied.signal.symbol = symbol
          /\ ~applied.ret.send

(***************************************************************************)
(* Sleeping with the permit.                                               *)
(***************************************************************************)
Sleeping == {t \in Tasks : pc[t] = "sleeping"}

\* the tasks inside the with-block of the semaphore
HoldingPermit == {t \in Tasks : pc[t] \in {"inflight", "responded", "sleeping"}}

\* C37: a fetch that sleeps a 429 hint or a backoff keeps its permit: going
\* to sleep frees no permit, the tasks in flight or sleeping never number
\* more than CONCURRENCY_LIMIT and hold exactly the permits taken, and while
\* CONCURRENCY_LIMIT tasks sleep no task issues a request.
C37_SleepersKeepTheirPermits ==
    /\ [](/\ Cardinality(HoldingPermit) <= CONCURRENCY_LIMIT
          /\ semaphore = CONCURRENCY_LIMIT - Cardinality(HoldingPermit))
    /\ [][/\ \A t \in Tasks :
               (pc[t] = "responded" /\ pc'[t] = "sleeping") =>
                   semaphore' = semaphore
          /\ Cardinality(Sleeping) = CONCURRENCY_LIMIT =>
               \A t \in Tasks : pc'[t] = "inflight" => pc[t] = "inflight"
         ]_vars

\* CONCURRENCY_LIMIT tasks of the fan-out sleep, one after a 429 and one
\* after a network error, and a further task waits for a permit
C37_AllPermitsHeldBySleepers ==
    /\ Cardinality(Sleeping) = CONCURRENCY_LIMIT
    /\ \E t \in Sleeping : response[t].status = 429
    /\ \E t \in Sleeping : response[t].error # "none"
    /\ \E t \in Tasks : pc[t] = "waiting"
    /\ semaphore = 0

(***************************************************************************)
(* Termination of the fetches and the permits at the end of a cycle.       *)
(***************************************************************************)
Running(t) == pc[t] \in {"waiting", "inflight", "responded", "sleeping"}

\* the step issues a request of task t
Issues(t) == pc'[t] = "inflight" /\ pc[t] # "inflight"

\* C36: when every request gets a response or an error, every fetch ends
\* (again and again no task is waiting, in flight, being handled or asleep),
\* having issued its requests under attempt numbers 0 .. MAX_RETRIES - 1,
\* each once; the gather of the fan-out gets every result; and when
\* the collection of a cycle ends, with a mapping, empty or by the ban, all
\* CONCURRENCY_LIMIT permits are free.
C36_FetchesEndAndPermitsReturn ==
    /\ []<>(\A t \in Tasks : ~Running(t))
    /\ [](\A t \in Tasks : Running(t) \/ pc[t] \in {"idle", "done"})
    /\ phase = "open_interest" ~> GatherReady(FanOut)
    /\ [][\A t \in Tasks :
            /\ Issues(t) =>
                 /\ attempt'[t] < MAX_RETRIES
                 /\ pc[t] = "waiting" => attempt'[t] = attempt[t]
                 /\ pc[t] # "waiting" => attempt'[t] = 0
            /\ (Running(t) /\ pc'[t] = "waiting" /\ pc[t] # "waiting") =>
                 attempt'[t] = attempt[t] + 1]_vars
    /\ [][(collected' # collected /\ collected' # "pending") =>
            /\ collected' \in {"mapping", "empty", "IPBannedError"}
            /\ semaphore' = CONCURRENCY_LIMIT]_vars
    /\ [](phase = "cycle_end" => semaphore = CONCURRENCY_LIMIT)

\* the collection of a cycle has ended by the ban after a task of the fan-out
\* had spent its last attempt, and every permit is free
C36_BanAfterASpentFetch ==
    /\ collected = "IPBannedError"
    /\ phase = "cycle_end"
    /\ \E t \in FanOut : outcome[t] = "IPBannedError"
    /\ \E t \in FanOut : outcome[t] = "None"
    /\ semaphore = CONCURRENCY_LIMIT

(***************************************************************************)
(* The veto without the reference instrument.                              *)
(***************************************************************************)
\* the round's mapping has entries, none of them for BTCUSDT
WithoutBtc == result_map # EmptyDict /\ "BTCUSDT" \notin DOMAIN result_map

\* C38: when BTCUSDT is not in the mapping of the cycle, the veto step takes
\* the reference change as 0 and leaves every Signal as analyze_all returned
\* it, whatever the ticker said of BTCUSDT: no Signal is marked or rewritten,
\* and the dispatch loop gets them all.
C38_NoVetoWithoutTheReference ==
    /\ [][(phase = "veto" /\ phase' # "veto" /\ WithoutBtc) =>
            /\ signal_list' = signal_list
            /\ \A i \in DOMAIN signal_list' :
                  /\ signal_list'[i].btc_change_pct = 0
                  /\ ~signal_list'[i].btc_veto]_vars
    /\ []((WithoutBtc /\ phase \in {"decide", "send"}) =>
            /\ Len(sorted_signals) = Len(signal_list)
            /\ \A i \in DOMAIN sorted_signals :
                  /\ ~sorted_signals[i].btc_veto
                  /\ sorted_signals[i].trend # VetoTrend)

\* a round whose mapping lacks BTCUSDT: the veto step has run and a NORMAL
\* Signal of XUSDT has been sent
C38_NormalSignalSentWithoutBtc ==
    /\ WithoutBtc
    /\ \E i \in DOMAIN trace : trace[i] = "veto"
    /\ \E i \in DOMAIN dispatch_log :
          /\ dispatch_log[i].marked
          /\ dispatch_log[i].signal.symbol = "XUSDT"
          /\ dispatch_log[i].signal.severity = "NORMAL"
          /\ ~dispatch_log[i].signal.btc_veto

(***************************************************************************)
(* Symbols with a file and no entry in the mapping.                        *)
(***************************************************************************)
\* the symbol has a file and the round's mapping has no entry for it
Dropped(symbol) ==
    /\ result_map # EmptyDict
    /\ symbol \notin DOMAIN result_map
    /\ store[symbol] # <<>>

\* the last row of the symbol's file that load_symbol_data keeps
LastStored(symbol) ==
    LoadSymbolData(store[symbol])[Len(LoadSymbolData(store[symbol]))]

\* C39: analyze_all looks at every symbol that has a file, in the mapping or
\* not: the list it returns holds a Signal of a symbol exactly when
\* analyze_symbol yields one from the symbol's file and its entry of the
\* mapping, None without an entry; the Signal of a dropped symbol carries the
\* price and the funding rate of its last stored row, and goes to the
\* dispatch like any other.
C39_DroppedSymbolsAreAnalyzed ==
    /\ [][(phase = "analyze" /\ phase' # "analyze") =>
            \A symbol \in Symbols :
                LET data == IF symbol \in DOMAIN result_map
                            THEN result_map[symbol] ELSE None
                    signal == AnalyzeSymbol(symbol, store[symbol], data)
                IN  /\ signal # None =>
                          \E i \in DOMAIN signal_list' :
                              signal_list'[i] = signal
                    /\ signal = None =>
                          \A i \in DOMAIN signal_list' :
                              signal_list'[i].symbol # symbol]_vars
    /\ [](\A i \in DOMAIN signal_list :
             Dropped(signal_list[i].symbol) =>
                 /\ signal_list[i].price =
                       LastStored(signal_list[i].symbol).close
                 /\ signal_list[i].funding_rate =
                       LastStored(signal_list[i].symbol).funding_rate)

\* XUSDT is not in the mapping of the round and its Signal has been sent
C39_DroppedSymbolAlerted ==
    /\ Dropped("XUSDT")
    /\ \E i \in DOMAIN dispatch_log :
          /\ dispatch_log[i].marked
          /\ dispatch_log[i].signal.symbol = "XUSDT"
          /\ dispatch_log[i].signal.funding_rate
                = LastStored("XUSDT").funding_rate

====
